---- MODULE Spec2Model ----
(***************************************************************************)
(* Data-plane transport and framing of the HE / HHE decision framework:    *)
(* Data_Manager/data_manager.cpp.  Length-prefixed framing, the per-path   *)
(* mutex registry, the byte spool writer and reader, and the ZeroMQ        *)
(* pull-and-persist receiver.                                              *)
(***************************************************************************)
EXTENDS Integers, Sequences, FiniteSets, TLC

(***************************************************************************)
(* Byte buffers.  A buffer (std::vector<uint8_t>, a file's contents, a     *)
(* queue message) is a sequence of runs [b, n]: n >= 1 copies of byte b,   *)
(* adjacent runs holding different bytes.  <<7, 7, 9>> is                  *)
(* <<[b |-> 7, n |-> 2], [b |-> 9, n |-> 1]>>.  The run form lets a buffer *)
(* of 2^30 bytes be a value of the model.                                  *)
(***************************************************************************)
Run(b, n) == IF n = 0 THEN <<>> ELSE <<[b |-> b, n |-> n]>>

\* Concatenation; s and t are taken as values a and b, once each.
Cat(s, t) ==
    CHOOSE c \in
        {IF a = <<>> THEN b
         ELSE IF b = <<>> THEN a
         ELSE IF a[Len(a)].b = b[1].b
              THEN SubSeq(a, 1, Len(a) - 1)
                   \o <<[b |-> b[1].b, n |-> a[Len(a)].n + b[1].n]>>
                   \o Tail(b)
              ELSE a \o b : a \in {s}, b \in {t}} : TRUE

RECURSIVE Size(_)
Size(s) == IF s = <<>> THEN 0 ELSE s[1].n + Size(Tail(s))

RECURSIVE FromSeq(_)
FromSeq(q) == IF q = <<>> THEN <<>> ELSE Cat(Run(q[1], 1), FromSeq(Tail(q)))

RECURSIVE Take(_, _)
Take(s, k) ==
    IF k = 0 \/ s = <<>> THEN <<>>
    ELSE IF s[1].n <= k THEN <<s[1]>> \o Take(Tail(s), k - s[1].n)
    ELSE Run(s[1].b, k)

RECURSIVE Drop(_, _)
Drop(s, k) ==
    IF k = 0 \/ s = <<>> THEN s
    ELSE IF s[1].n <= k THEN Drop(Tail(s), k - s[1].n)
    ELSE <<[b |-> s[1].b, n |-> s[1].n - k]>> \o Tail(s)

\* The bytes of a buffer, one by one; s is taken as a value a, once.
RECURSIVE Expand(_)
Expand(s) ==
    IF s = <<>> THEN <<>>
    ELSE CHOOSE q \in {<<a[1].b>> \o Expand(Run(a[1].b, a[1].n - 1) \o Tail(a)) :
                          a \in {s}} : TRUE

Min(a, b) == IF a <= b THEN a ELSE b

(***************************************************************************)
(* uint32_t values are kept as two 16-bit halves [hi, lo], so that every   *)
(* 32-bit length prefix is a value of the model.                           *)
(***************************************************************************)
MAX_REASONABLE_SIZE == 1073741824

ToUint32(size) == [hi |-> (size \div 65536) % 65536, lo |-> size % 65536]

U32EqSize(u, size) == (size \div 65536) = u.hi /\ (size % 65536) = u.lo

U32Gt(u, n) == u.hi > n \div 65536 \/ (u.hi = n \div 65536 /\ u.lo > n % 65536)

U32Value(u) == u.hi * 65536 + u.lo

\* A host-order (little-endian) length, the byte swap left out.
htonl_NoSwap(u) == <<u.lo % 256, u.lo \div 256, u.hi % 256, u.hi \div 256>>

htonl(u) == <<u.hi \div 256, u.hi % 256, u.lo \div 256, u.lo % 256>>

ntohl(q) == [hi |-> q[1] * 256 + q[2], lo |-> q[3] * 256 + q[4]]

(***************************************************************************)
(* State.                                                                  *)
(***************************************************************************)
VARIABLES
    files,            \* path -> the bytes of the file at that path
    g_path_mutexes,   \* the path strings that have a mutex in the registry
    holder,           \* path -> the thread holding that path's mutex, or "none"
    thr,              \* writer -> its position in storing one frame, its payload
    appended,         \* history: writer -> payloads it has stored, in its order
    spooled,          \* history: payloads stored, in the order the stores ended
    wire,             \* messages queued on the push/pull link, oldest first
    sent,             \* history: every message pushed, in send order
    rx,               \* the receiver: its position in zmq_receive_and_store
    consumed,         \* history: every message the receiver has taken
    rd,               \* the open reader's stream: kind, pos, eofbit, failbit
    reads,            \* history: the result of every read of a frame
    written,          \* history: every write of a frame to the sink
    damage,           \* what the environment did to the file before reading
    reader,           \* the spool reader object: its flavour and whether it holds a stream
    sockets_,         \* ZmqPushManager: endpoint -> the push socket bound to it
    mutex_,           \* ZmqPushManager: the thread holding the pool's mutex, or "none"
    snd,              \* thread -> its position in send_to_endpoint, its arguments
    binds,            \* history: every socket created, with its endpoint and bind result
    pushed,           \* history: every sock->send, with the threads then inside send
    role,             \* role -> the position of its main, its batch, its exit code
    links,            \* endpoint -> the messages queued between two roles
    plain,            \* history: the IntegerBlocks the Client produced, in order
    peers,            \* the endpoints a pull socket is connected to
    now,              \* the wall clock, in seconds
    listing           \* the directory a latest-file lookup is applied to

spoolVars == <<files, g_path_mutexes, holder, thr, appended, spooled, wire, sent, rx,
               consumed, rd, reads, written, damage>>
readerVars == <<reader>>
poolVars == <<sockets_, mutex_, snd, binds, pushed>>
roleVars == <<role, links, plain>>
mainVars == <<peers, now, listing>>

vars == <<spoolVars, readerVars, poolVars, roleVars, mainVars>>

SpoolPath == "spool"
PathNames == {SpoolPath}

(***************************************************************************)
(* Streams.  An output sink accepts `accept` more write calls and rejects  *)
(* the next (a full disk, a closed descriptor); an input stream has a read *)
(* position and, for ifstream, the sticky eofbit and failbit.              *)
(***************************************************************************)
OfsWrite(ofs, buf) ==
    IF ofs.bad \/ ofs.accept = 0
    THEN [ofs EXCEPT !.bad = TRUE]
    ELSE [bytes |-> Cat(ofs.bytes, buf), bad |-> FALSE, accept |-> ofs.accept - 1]

IstreamRead(ifs, file, n) ==
    IF ifs.eofbit \/ ifs.failbit
    THEN [ifs |-> [ifs EXCEPT !.failbit = TRUE], got |-> <<>>]
    ELSE LET k == Min(n, Size(file) - ifs.pos)
         IN [ifs |-> [ifs EXCEPT !.pos = @ + k, !.eofbit = (k < n), !.failbit = (k < n)],
             got |-> Take(Drop(file, ifs.pos), k)]

Fread(f, file, n) ==
    LET k == Min(n, Size(file) - f.pos)
    IN [f |-> [f EXCEPT !.pos = @ + k], got |-> Take(Drop(file, f.pos), k)]

(***************************************************************************)
(* Framing.                                                                *)
(***************************************************************************)
write_length_prefixed_bytes_to_ofstream(ofs, data) ==
    LET size == Size(data)
        len  == ToUint32(size)
    IN IF ~U32EqSize(len, size)
       THEN [status |-> "throw_too_large", ofs |-> ofs]
       ELSE LET o1 == OfsWrite(ofs, FromSeq(htonl(len)))
            IN IF o1.bad
               THEN [status |-> "throw_write_length", ofs |-> o1]
               ELSE IF U32Gt(len, 0)
                    THEN LET o2 == OfsWrite(o1, data)
                         IN IF o2.bad
                            THEN [status |-> "throw_write_payload", ofs |-> o2]
                            ELSE [status |-> "ok", ofs |-> o2]
                    ELSE [status |-> "ok", ofs |-> o1]

write_length_prefixed_bytes_to_FILE(f, data) ==
    LET size == Size(data)
        len  == ToUint32(size)
    IN IF ~U32EqSize(len, size)
       THEN [status |-> "throw_too_large", ofs |-> f]
       ELSE LET f1 == OfsWrite(f, FromSeq(htonl(len)))
            IN IF f1.bad
               THEN [status |-> "throw_write_length", ofs |-> f1]
               ELSE IF U32Gt(len, 0)
                    THEN LET f2 == OfsWrite(f1, data)
                         IN IF f2.bad
                            THEN [status |-> "throw_write_payload", ofs |-> f2]
                            ELSE [status |-> "ok", ofs |-> f2]
                    ELSE [status |-> "ok", ofs |-> f1]

\* A cap test that also rejects len = MAX_REASONABLE_SIZE (len >= cap).
ExceedsCap_Inclusive(len) == U32Gt(len, MAX_REASONABLE_SIZE - 1)

\* The sanity cap test of a decoded length: len > MAX_REASONABLE_SIZE.
ExceedsCap(len) == U32Gt(len, MAX_REASONABLE_SIZE)

\* What out has been resized to when the cap test throws: the test comes
\* before out.resize(len), so nothing.
AllocAtCapThrow_ResizeFirst(len) == len

AllocAtCapThrow(len) == ToUint32(0)

\* Whether a payload read that returned `got` of the n bytes asked for failed.
PayloadShort_Unchecked(got, n) == FALSE

PayloadShort(got, n) == Size(got) # n

\* The result of a read: ret is "true", "false" or the exception thrown;
\* out is the caller's vector afterwards; alloc is the uint32 size out was resized to.
read_length_prefixed_bytes_from_ifstream(ifs, file) ==
    LET r1 == IstreamRead(ifs, file, 4)
    IN IF r1.ifs.failbit
       THEN IF r1.ifs.eofbit
            THEN [ret |-> "false", ifs |-> r1.ifs, out |-> <<>>, alloc |-> ToUint32(0)]
            ELSE [ret |-> "throw_read_length", ifs |-> r1.ifs, out |-> <<>>, alloc |-> ToUint32(0)]
       ELSE LET len == ntohl(Expand(r1.got))
            IN IF ExceedsCap(len)
               THEN [ret |-> "throw_suspicious_length", ifs |-> r1.ifs,
                     out |-> <<>>, alloc |-> AllocAtCapThrow(len)]
               ELSE LET n  == U32Value(len)
                        r2 == IstreamRead(r1.ifs, file, n)
                    IN IF n = 0
                       THEN [ret |-> "true", ifs |-> r1.ifs, out |-> <<>>, alloc |-> ToUint32(0)]
                       ELSE IF r2.ifs.failbit
                            THEN [ret |-> "throw_read_payload", ifs |-> r2.ifs,
                                  out |-> Cat(r2.got, Run(0, n - Size(r2.got))),
                                  alloc |-> len]
                            ELSE [ret |-> "true", ifs |-> r2.ifs,
                                  out |-> r2.got, alloc |-> len]

read_length_prefixed_bytes_from_FILE(f, file) ==
    LET r1 == Fread(f, file, 4)
        r  == Size(r1.got)
    IN IF r = 0
       THEN [ret |-> "false", ifs |-> r1.f, out |-> <<>>, alloc |-> ToUint32(0)]
       ELSE IF r # 4
            THEN [ret |-> "throw_incomplete_length_header", ifs |-> r1.f,
                  out |-> <<>>, alloc |-> ToUint32(0)]
            ELSE LET len == ntohl(Expand(r1.got))
                 IN IF ExceedsCap(len)
                    THEN [ret |-> "throw_suspicious_length", ifs |-> r1.f,
                          out |-> <<>>, alloc |-> AllocAtCapThrow(len)]
                    ELSE LET n  == U32Value(len)
                             r2 == Fread(r1.f, file, n)
                         IN IF n = 0
                            THEN [ret |-> "true", ifs |-> r1.f, out |-> <<>>, alloc |-> ToUint32(0)]
                            ELSE IF PayloadShort(r2.got, n)
                                 THEN [ret |-> "throw_payload_truncated", ifs |-> r2.f,
                                       out |-> Cat(r2.got, Run(0, n - Size(r2.got))),
                                       alloc |-> len]
                                 ELSE [ret |-> "true", ifs |-> r2.f,
                                       out |-> r2.got, alloc |-> len]

(***************************************************************************)
(* Bounds and input alphabets.                                             *)
(***************************************************************************)
MaxFrames == 2          \* frames written to one sink
MaxCutScan == 7         \* truncation points tried from the start of a file
MaxSpoolBytes == 1073741840   \* total bytes of one file of the model

SmallPayloads ==
    {FromSeq(q) : q \in {<<>>, <<7>>, <<0, 9>>, <<254, 1>>, <<255>>}}

BigPayloads ==
    {Run(0, MAX_REASONABLE_SIZE), Run(0, MAX_REASONABLE_SIZE + 1)}

FramePayloads == SmallPayloads \cup BigPayloads

\* Length headers the environment may leave in a file (corrupted input).
RawHeaders ==
    {<<64, 0, 0, 0>>, <<64, 0, 0, 1>>, <<128, 0, 0, 0>>, <<255, 255, 255, 255>>,
     <<0, 0, 0, 2>>}

RawTails == {FromSeq(q) : q \in {<<>>, <<5>>, <<5, 6>>}}

StreamKinds == {"fstream", "FILE"}

(***************************************************************************)
(* Idle values of the parts a specification does not use.                  *)
(***************************************************************************)
NoThread == "none"
Threads == {"t1", "t2"}      \* threads calling append_vector_to_file
Receiver == "rx"             \* the thread inside zmq_receive_and_store
Writers == Threads \cup {Receiver}

IdleThreads ==
    /\ thr = [t \in Writers |-> [pc |-> "idle", data |-> <<>>]]
    /\ appended = [t \in Writers |-> <<>>]
    /\ spooled = <<>>
    /\ g_path_mutexes = {}
    /\ holder = [p \in PathNames |-> NoThread]

IdleQueue ==
    /\ wire = <<>>
    /\ sent = <<>>
    /\ consumed = <<>>
    /\ rx = [pc |-> "idle", received |-> 0, max_messages |-> 0,
             expect_eof_frame |-> FALSE, ret |-> 0]

IdleReader ==
    /\ rd = [kind |-> "closed", pos |-> 0, eofbit |-> FALSE, failbit |-> FALSE]
    /\ reads = <<>>

IdleFrame ==
    /\ written = <<>>
    /\ damage = [kind |-> "none"]

IdleObject ==
    reader = [kind |-> "none", state |-> "none"]

IdlePool ==
    /\ sockets_ = <<>>
    /\ mutex_ = NoThread
    /\ snd = <<>>
    /\ binds = <<>>
    /\ pushed = <<>>

IdleRoles ==
    /\ role = <<>>
    /\ links = <<>>
    /\ plain = <<>>

IdleMain ==
    /\ peers = {}
    /\ now = 0
    /\ listing = <<>>

(***************************************************************************)
(* The framing functions on a single sink: a frame written by              *)
(* write_length_prefixed_bytes_to_{ofstream,FILE}, then read back by       *)
(* read_length_prefixed_bytes_from_{ifstream,FILE}.                        *)
(***************************************************************************)
WriteFrame(kind, ofs, data) ==
    IF kind = "fstream"
    THEN write_length_prefixed_bytes_to_ofstream(ofs, data)
    ELSE write_length_prefixed_bytes_to_FILE(ofs, data)

ReadFrame(r, file) ==
    IF r.kind = "fstream"
    THEN read_length_prefixed_bytes_from_ifstream(r, file)
    ELSE read_length_prefixed_bytes_from_FILE(r, file)

FrameInit ==
    /\ files = [p \in PathNames |-> <<>>]
    /\ rd \in {[kind |-> k, pos |-> 0, eofbit |-> FALSE, failbit |-> FALSE] :
               k \in StreamKinds}
    /\ reads = <<>>
    /\ IdleFrame
    /\ IdleThreads
    /\ IdleQueue
    /\ IdleObject
    /\ IdlePool
    /\ IdleRoles
    /\ IdleMain

\* One call of write_length_prefixed_bytes_to_* on the sink.
FrameWrite ==
    /\ reads = <<>>
    /\ damage.kind = "none"
    /\ Len(written) < MaxFrames
    /\ \A i \in 1..Len(written) : written[i].status = "ok"
    /\ \E data \in FramePayloads, accept \in 0..2 :
          /\ Size(data) <= MaxSpoolBytes - 4 - Size(files[SpoolPath])
          /\ LET w == WriteFrame(rd.kind,
                                 [bytes |-> files[SpoolPath], bad |-> FALSE,
                                  accept |-> accept], data)
             IN /\ files' = [files EXCEPT ![SpoolPath] = w.ofs.bytes]
                /\ written' = Append(written,
                                     [data |-> data, status |-> w.status,
                                      before |-> files[SpoolPath],
                                      after |-> w.ofs.bytes,
                                      accept |-> accept])
    /\ UNCHANGED <<readerVars, poolVars, roleVars, mainVars>>
    /\ UNCHANGED <<g_path_mutexes, holder, thr, appended, spooled, wire, sent, rx,
                   consumed, rd, reads, damage>>

CutPoints(file) ==
    {k \in (0..Min(Size(file) - 1, MaxCutScan))
           \cup {Size(file) - 2, Size(file) - 1} : k >= 0}

\* The environment truncates the file to its first k bytes.
EnvTruncate ==
    /\ reads = <<>>
    /\ damage.kind = "none"
    /\ \E k \in CutPoints(files[SpoolPath]) :
          /\ files' = [files EXCEPT ![SpoolPath] = Take(@, k)]
          /\ damage' = [kind |-> "cut", at |-> k]
    /\ UNCHANGED <<readerVars, poolVars, roleVars, mainVars>>
    /\ UNCHANGED <<g_path_mutexes, holder, thr, appended, spooled, wire, sent, rx,
                   consumed, rd, reads, written>>

\* The environment leaves a foreign length header and some bytes at the end.
EnvAppendRaw ==
    /\ reads = <<>>
    /\ damage.kind = "none"
    /\ Size(files[SpoolPath]) < MAX_REASONABLE_SIZE
    /\ \E h \in RawHeaders, t \in RawTails :
          /\ files' = [files EXCEPT ![SpoolPath] = Cat(Cat(@, FromSeq(h)), t)]
          /\ damage' = [kind |-> "raw", at |-> Size(files[SpoolPath])]
    /\ UNCHANGED <<readerVars, poolVars, roleVars, mainVars>>
    /\ UNCHANGED <<g_path_mutexes, holder, thr, appended, spooled, wire, sent, rx,
                   consumed, rd, reads, written>>

\* One call of read_length_prefixed_bytes_from_* on the source.
FrameRead ==
    /\ (IF reads = <<>> THEN "true" ELSE reads[Len(reads)].ret) = "true"
    /\ LET r == ReadFrame(rd, files[SpoolPath])
       IN /\ rd' = [rd EXCEPT !.pos = r.ifs.pos, !.eofbit = r.ifs.eofbit,
                              !.failbit = r.ifs.failbit]
          /\ reads' = Append(reads, [ret |-> r.ret, out |-> r.out,
                                     alloc |-> r.alloc, pos |-> rd.pos])
    /\ UNCHANGED <<readerVars, poolVars, roleVars, mainVars>>
    /\ UNCHANGED <<files, g_path_mutexes, holder, thr, appended, spooled, wire, sent,
                   rx, consumed, written, damage>>

FrameNext == FrameWrite \/ EnvTruncate \/ EnvAppendRaw \/ FrameRead

SpecFrame == FrameInit /\ [][FrameNext]_vars

(***************************************************************************)
(* The per-path mutex registry and the critical section that stores one    *)
(* frame: append_vector_to_file, and the persist block of                  *)
(* zmq_receive_and_store.  The file system of these specifications accepts *)
(* every open and every write.                                             *)
(***************************************************************************)
MaxAppends == 2         \* append_vector_to_file calls per thread
MaxSent == 3            \* messages pushed on the link
MaxSpoolSent == 1       \* messages pushed while threads append
MaxMessages == 3        \* largest max_messages argument of the receiver

\* What each thread appends, and what is pushed while threads append.
SpoolPayloads(t) ==
    IF t = "t1" THEN {FromSeq(q) : q \in {<<>>, <<0, 9>>}}
    ELSE {FromSeq(q) : q \in {<<7>>, <<0, 9>>}}

SpoolWirePayloads == {FromSeq(q) : q \in {<<9>>, <<254, 1>>}}

WirePayloads == {FromSeq(q) : q \in {<<>>, <<7>>, <<254, 1>>, <<255, 1>>}}

SofMarker == FromSeq(<<254>>)
EofMarker == FromSeq(<<255>>)

\* get_mutex_for_path: the registry is keyed by the path string as given.
get_mutex_for_path(path) == path

\* std::lock_guard on a path's mutex blocks while another thread holds it.
LockAvailable_NoExclusion(m) == TRUE

LockAvailable(m) == holder[m] = NoThread

\* A loop that never tests the count.
LoopPc_NoLimit(r) == "recv"

\* The while condition of the receive loop, and where the loop goes next.
LoopPc(r) ==
    IF r.max_messages = 0 \/ r.received < r.max_messages THEN "recv" ELSE "done"

\* The receiver's tests of a message's first byte.
IsSofFrame_Never(msg) == FALSE

IsSofFrame(msg) == Size(msg) >= 1 /\ msg[1].b = 254

\* A test that takes only the one-byte marker for EOF.
IsEofFrame_MarkerOnly(msg) == msg = EofMarker

IsEofFrame(msg) == Size(msg) >= 1 /\ msg[1].b = 255

\* append_vector_to_file(path, data) is called by thread t, which fetches
\* the path's mutex: auto m = get_mutex_for_path(path);
AppendCall(t) ==
    /\ thr[t].pc = "idle"
    /\ rd.kind = "closed"
    /\ Len(appended[t]) < MaxAppends
    /\ \E data \in SpoolPayloads(t) :
          thr' = [thr EXCEPT ![t] = [pc |-> "lock", data |-> data]]
    /\ g_path_mutexes' = g_path_mutexes \cup {get_mutex_for_path(SpoolPath)}
    /\ UNCHANGED <<readerVars, poolVars, roleVars, mainVars>>
    /\ UNCHANGED <<files, holder, appended, spooled, wire, sent, rx, consumed,
                   rd, reads, written, damage>>

\* std::lock_guard<std::mutex> lk(*m); then the ofstream is opened to append.
Lock(t) ==
    /\ thr[t].pc = "lock"
    /\ get_mutex_for_path(SpoolPath) \in g_path_mutexes
    /\ LockAvailable(get_mutex_for_path(SpoolPath))
    /\ holder' = [holder EXCEPT ![get_mutex_for_path(SpoolPath)] = t]
    /\ thr' = [thr EXCEPT ![t].pc = "write_length"]
    /\ UNCHANGED <<readerVars, poolVars, roleVars, mainVars>>
    /\ UNCHANGED <<files, g_path_mutexes, appended, spooled, wire, sent, rx,
                   consumed, rd, reads, written, damage>>

\* ofs.flush(); the scope ends: the stream is closed and the mutex released.
\* The receiver then counts the message and tests its loop condition; a
\* thread inside append_vector_to_file catches what was thrown and returns.
Release(t, stored) ==
    /\ holder' = [holder EXCEPT ![get_mutex_for_path(SpoolPath)] =
                     IF @ = t THEN NoThread ELSE @]
    /\ thr' = [thr EXCEPT ![t] = [pc |-> "idle", data |-> <<>>]]
    /\ IF stored
       THEN /\ appended' = [appended EXCEPT ![t] = Append(@, thr[t].data)]
            /\ spooled' = Append(spooled, thr[t].data)
       ELSE UNCHANGED <<appended, spooled>>
    /\ IF t = Receiver
       THEN IF stored
            THEN rx' = [rx EXCEPT !.received = @ + 1,
                                  !.pc = LoopPc([rx EXCEPT !.received = @ + 1])]
            ELSE rx' = [rx EXCEPT !.pc = "threw"]
       ELSE rx' = rx

\* The first write of write_length_prefixed_bytes_to_ofstream: the length.
\* A payload of length 0 has no second write: the frame is complete.
WriteLength(t) ==
    /\ thr[t].pc = "write_length"
    /\ LET size == Size(thr[t].data)
           len  == ToUint32(size)
           o1   == OfsWrite([bytes |-> files[SpoolPath], bad |-> FALSE,
                             accept |-> 2], FromSeq(htonl(len)))
       IN IF ~U32EqSize(len, size)
          THEN /\ files' = files
               /\ Release(t, FALSE)
          ELSE /\ files' = [files EXCEPT ![SpoolPath] = o1.bytes]
               /\ IF U32Gt(len, 0)
                  THEN /\ thr' = [thr EXCEPT ![t].pc = "write_payload"]
                       /\ UNCHANGED <<holder, appended, spooled, rx>>
                  ELSE Release(t, TRUE)
    /\ UNCHANGED <<readerVars, poolVars, roleVars, mainVars>>
    /\ UNCHANGED <<g_path_mutexes, wire, sent, consumed, rd, reads, written,
                   damage>>

\* The second write of write_length_prefixed_bytes_to_ofstream: the payload.
WritePayload(t) ==
    /\ thr[t].pc = "write_payload"
    /\ LET o2 == OfsWrite([bytes |-> files[SpoolPath], bad |-> FALSE,
                           accept |-> 1], thr[t].data)
       IN files' = [files EXCEPT ![SpoolPath] = o2.bytes]
    /\ Release(t, TRUE)
    /\ UNCHANGED <<readerVars, poolVars, roleVars, mainVars>>
    /\ UNCHANGED <<g_path_mutexes, wire, sent, consumed, rd, reads, written,
                   damage>>

(***************************************************************************)
(* The push/pull link: send_vector_via_zmq, send_sof_marker, the EOF       *)
(* marker a role sends, and zmq_receive_and_store.                         *)
(***************************************************************************)
Push(msg, limit) ==
    /\ Len(sent) < limit
    /\ wire' = Append(wire, msg)
    /\ sent' = Append(sent, msg)
    /\ UNCHANGED <<readerVars, poolVars, roleVars, mainVars>>
    /\ UNCHANGED <<files, g_path_mutexes, holder, thr, appended, spooled, rx,
                   consumed, rd, reads, written, damage>>

send_vector_via_zmq(limit) ==
    \E data \in (IF limit = MaxSent THEN WirePayloads ELSE SpoolWirePayloads) :
        Push(data, limit)

send_sof_marker(limit) == Push(SofMarker, limit)

send_eof_marker(limit) == Push(EofMarker, limit)

\* sock.recv(msg) and the tests of the message, up to the persist block.
RxRecv ==
    /\ rx.pc = "recv"
    /\ wire # <<>>
    /\ wire' = Tail(wire)
    /\ consumed' = Append(consumed, Head(wire))
    /\ IF IsSofFrame(Head(wire))
       THEN /\ rx' = [rx EXCEPT !.pc = LoopPc(rx)]
            /\ thr' = thr
       ELSE IF rx.expect_eof_frame /\ IsEofFrame(Head(wire))
            THEN /\ rx' = [rx EXCEPT !.pc = "done"]
                 /\ thr' = thr
            ELSE /\ rx' = [rx EXCEPT !.pc = "persist"]
                 /\ thr' = [thr EXCEPT ![Receiver] =
                               [pc |-> "lock", data |-> Head(wire)]]
    /\ UNCHANGED <<readerVars, poolVars, roleVars, mainVars>>
    /\ UNCHANGED <<files, g_path_mutexes, holder, appended, spooled, sent, rd,
                   reads, written, damage>>

\* return received;
RxReturn ==
    /\ rx.pc = "done"
    /\ rx' = [rx EXCEPT !.pc = "returned", !.ret = rx.received]
    /\ UNCHANGED <<readerVars, poolVars, roleVars, mainVars>>
    /\ UNCHANGED <<files, g_path_mutexes, holder, thr, appended, spooled, wire,
                   sent, consumed, rd, reads, written, damage>>

\* The state at the head of the receive loop: the socket is connected, the
\* path's mutex fetched (line 415), nothing received.
RxEntered ==
    /\ rx \in {[pc |-> LoopPc([max_messages |-> n, received |-> 0]),
                received |-> 0, max_messages |-> n, expect_eof_frame |-> e,
                ret |-> 0] : n \in 0..MaxMessages, e \in BOOLEAN}
    /\ wire = <<>>
    /\ sent = <<>>
    /\ consumed = <<>>

(***************************************************************************)
(* FileVectorReader: the constructor opens the ifstream, next() reads one  *)
(* frame while holding the path's mutex.                                   *)
(***************************************************************************)
Quiescent ==
    /\ \A t \in Writers : thr[t].pc = "idle"
    /\ holder[get_mutex_for_path(SpoolPath)] = NoThread

FileVectorReader_open ==
    /\ rd.kind = "closed"
    /\ Quiescent
    /\ rx.pc \in {"idle", "returned"}
    /\ rd' = [kind |-> "fstream", pos |-> 0, eofbit |-> FALSE, failbit |-> FALSE]
    /\ g_path_mutexes' = g_path_mutexes \cup {get_mutex_for_path(SpoolPath)}
    /\ UNCHANGED <<readerVars, poolVars, roleVars, mainVars>>
    /\ UNCHANGED <<files, holder, thr, appended, spooled, wire, sent, rx,
                   consumed, reads, written, damage>>

FileVectorReader_next ==
    /\ rd.kind = "fstream"
    /\ LockAvailable(get_mutex_for_path(SpoolPath))
    /\ (IF reads = <<>> THEN "true" ELSE reads[Len(reads)].ret) = "true"
    /\ LET r == read_length_prefixed_bytes_from_ifstream(rd, files[SpoolPath])
       IN /\ rd' = [rd EXCEPT !.pos = r.ifs.pos, !.eofbit = r.ifs.eofbit,
                              !.failbit = r.ifs.failbit]
          /\ reads' = Append(reads, [ret |-> r.ret, out |-> r.out,
                                     alloc |-> r.alloc, pos |-> rd.pos])
    /\ UNCHANGED <<readerVars, poolVars, roleVars, mainVars>>
    /\ UNCHANGED <<files, g_path_mutexes, holder, thr, appended, spooled, wire,
                   sent, rx, consumed, written, damage>>

(***************************************************************************)
(* SpecRecv: one receiver draining the link into the spool.                *)
(***************************************************************************)
RecvInit ==
    /\ files = [p \in PathNames |-> <<>>]
    /\ thr = [t \in Writers |-> [pc |-> "idle", data |-> <<>>]]
    /\ appended = [t \in Writers |-> <<>>]
    /\ spooled = <<>>
    /\ g_path_mutexes = {get_mutex_for_path(SpoolPath)}
    /\ holder = [p \in PathNames |-> NoThread]
    /\ RxEntered
    /\ IdleReader
    /\ IdleFrame
    /\ IdleObject
    /\ IdlePool
    /\ IdleRoles
    /\ IdleMain

RecvNext ==
    \/ send_vector_via_zmq(MaxSent)
    \/ send_sof_marker(MaxSent)
    \/ send_eof_marker(MaxSent)
    \/ RxRecv
    \/ Lock(Receiver)
    \/ WriteLength(Receiver)
    \/ WritePayload(Receiver)
    \/ RxReturn

SpecRecv == RecvInit /\ [][RecvNext]_vars

(***************************************************************************)
(* SpecSpool: two threads appending to one path while the receiver stores  *)
(* the messages of the link into the same path.                            *)
(***************************************************************************)
SpoolInit ==
    /\ files = [p \in PathNames |-> <<>>]
    /\ thr = [t \in Writers |-> [pc |-> "idle", data |-> <<>>]]
    /\ appended = [t \in Writers |-> <<>>]
    /\ spooled = <<>>
    /\ g_path_mutexes = {get_mutex_for_path(SpoolPath)}
    /\ holder = [p \in PathNames |-> NoThread]
    /\ rx = [pc |-> "recv", received |-> 0, max_messages |-> MaxSpoolSent,
             expect_eof_frame |-> TRUE, ret |-> 0]
    /\ wire = <<>>
    /\ sent = <<>>
    /\ consumed = <<>>
    /\ IdleReader
    /\ IdleFrame
    /\ IdleObject
    /\ IdlePool
    /\ IdleRoles
    /\ IdleMain

SpoolNext ==
    \/ \E t \in Threads : AppendCall(t)
    \/ \E t \in Writers : Lock(t)
    \/ \E t \in Writers : WriteLength(t)
    \/ \E t \in Writers : WritePayload(t)
    \/ send_vector_via_zmq(MaxSpoolSent)
    \/ RxRecv
    \/ RxReturn

SpecSpool == SpoolInit /\ [][SpoolNext]_vars

(***************************************************************************)
(* SpecRead: threads append frames to an empty spool; when they have       *)
(* finished, a FileVectorReader is opened and read to its end.             *)
(***************************************************************************)
ReadInit ==
    /\ files = [p \in PathNames |-> <<>>]
    /\ IdleThreads
    /\ IdleQueue
    /\ IdleReader
    /\ IdleFrame
    /\ IdleObject
    /\ IdlePool
    /\ IdleRoles
    /\ IdleMain

ReadNext ==
    \/ AppendCall("t1")
    \/ AppendCall("t2")
    \/ Lock("t1")
    \/ Lock("t2")
    \/ WriteLength("t1")
    \/ WriteLength("t2")
    \/ WritePayload("t1")
    \/ WritePayload("t2")
    \/ FileVectorReader_open
    \/ FileVectorReader_next

SpecRead == ReadInit /\ [][ReadNext]_vars

(***************************************************************************)
(* The TFHE ciphertext codec.  A TFHECiphertextVec is a sequence of        *)
(* samples; the library's exporter writes one fixed-size block per sample, *)
(* here one byte.  The buffer is the big-endian sample count, then the     *)
(* blocks.                                                                 *)
(***************************************************************************)
Indeterminate == "indeterminate"   \* a sample the importer could not read

RECURSIVE Pad(_, _)
Pad(v, n) == IF Len(v) >= n THEN v ELSE Pad(Append(v, Indeterminate), n)

\* params: whether the parameter set pointer is non-null; tmp: whether
\* tmpfile() gave a file.
serialize_TFHECiphertextVec_to_buffer_NoCount(v, params, tmp) ==
    [ok |-> TRUE, out |-> FromSeq(v)]

serialize_TFHECiphertextVec_to_buffer(v, params, tmp) ==
    IF ~params THEN [ok |-> FALSE, out |-> <<>>]
    ELSE IF ~tmp THEN [ok |-> FALSE, out |-> <<>>]
    ELSE [ok |-> TRUE,
          out |-> Cat(FromSeq(htonl(ToUint32(Len(v)))), FromSeq(v))]

deserialize_buffer_to_TFHECiphertextVec(in, params, tmp) ==
    IF ~params THEN [ok |-> FALSE, out |-> <<>>]
    ELSE IF Size(in) < 4 THEN [ok |-> FALSE, out |-> <<>>]
    ELSE IF ~tmp THEN [ok |-> FALSE, out |-> <<>>]
    ELSE LET n == U32Value(ntohl(Expand(Take(in, 4))))
         IN [ok |-> TRUE, out |-> Pad(Expand(Take(Drop(in, 4), n)), n)]

(***************************************************************************)
(* append_vector_to_file as one call, on a file system that may refuse the *)
(* open or a write.  env.opens: the open succeeds; env.accept: the write   *)
(* calls the stream accepts; env.params, env.tmp: the TFHE serializer's    *)
(* parameter set and temporary file are there.                             *)
(***************************************************************************)
MaxCalls == 2           \* append_vector_to_file calls on one path

\* catch (const std::exception& e) { std::cerr << ... }: whatever was
\* thrown inside the try block, the function then returns to its caller.
AppendOutcome(status) == "returned"

FileBytes(fs, path) == IF path \in DOMAIN fs THEN fs[path] ELSE <<>>

append_vector_to_file(fs, path, data, env) ==
    IF ~env.opens
    THEN [files |-> fs, status |-> "throw_cannot_open",
          outcome |-> AppendOutcome("throw_cannot_open")]
    ELSE LET w == write_length_prefixed_bytes_to_ofstream(
                      [bytes |-> FileBytes(fs, path), bad |-> FALSE,
                       accept |-> env.accept], data)
         IN [files |-> (path :> w.ofs.bytes) @@ fs, status |-> w.status,
             outcome |-> AppendOutcome(w.status)]

append_vector_to_file_TFHE(fs, path, data, env) ==
    IF ~env.opens
    THEN [files |-> fs, status |-> "throw_cannot_open",
          outcome |-> AppendOutcome("throw_cannot_open")]
    ELSE LET opened == (path :> FileBytes(fs, path)) @@ fs
             buf == serialize_TFHECiphertextVec_to_buffer(data, env.params, env.tmp)
         IN IF ~buf.ok
            THEN [files |-> opened, status |-> "throw_serialization",
                  outcome |-> AppendOutcome("throw_serialization")]
            ELSE LET w == write_length_prefixed_bytes_to_FILE(
                              [bytes |-> FileBytes(fs, path), bad |-> FALSE,
                               accept |-> env.accept], buf.out)
                 IN [files |-> (path :> w.ofs.bytes) @@ fs, status |-> w.status,
                     outcome |-> AppendOutcome(w.status)]

AppendBytes == {FromSeq(q) : q \in {<<>>, <<7>>, <<0, 9>>}}
AppendVecs == {<<>>, <<16, 17>>}
AppendEnvs ==
    [opens : BOOLEAN, accept : 0..2, params : BOOLEAN, tmp : BOOLEAN]

\* The frame a stored value occupies in the spool.
FrameOf(buf) == Cat(FromSeq(htonl(ToUint32(Size(buf)))), buf)

AppendInit ==
    /\ files = <<>>
    /\ IdleThreads
    /\ IdleQueue
    /\ IdleReader
    /\ IdleFrame
    /\ IdleObject
    /\ IdlePool
    /\ IdleRoles
    /\ IdleMain

\* append_vector_to_file(path, data): the byte flavour.
AppendBytesCall ==
    /\ Len(written) < MaxCalls
    /\ \E data \in AppendBytes, env \in AppendEnvs :
          /\ env.params /\ env.tmp
          /\ LET r == append_vector_to_file(files, SpoolPath, data, env)
             IN /\ files' = r.files
                /\ written' = Append(written,
                       [flavour |-> "bytes", buf |-> data, env |-> env,
                        status |-> r.status, outcome |-> r.outcome,
                        before |-> FileBytes(files, SpoolPath),
                        after |-> FileBytes(r.files, SpoolPath)])
    /\ UNCHANGED <<g_path_mutexes, holder, thr, appended, spooled, wire, sent, rx,
                   consumed, rd, reads, damage>>
    /\ UNCHANGED <<readerVars, poolVars, roleVars, mainVars>>

\* append_vector_to_file(path, data, params): the TFHE flavour.
AppendTFHECall ==
    /\ Len(written) < MaxCalls
    /\ \E data \in AppendVecs, env \in AppendEnvs :
          LET r == append_vector_to_file_TFHE(files, SpoolPath, data, env)
          IN /\ files' = r.files
             /\ written' = Append(written,
                    [flavour |-> "tfhe",
                     buf |-> Cat(FromSeq(htonl(ToUint32(Len(data)))), FromSeq(data)),
                     env |-> env,
                     status |-> r.status, outcome |-> r.outcome,
                     before |-> FileBytes(files, SpoolPath),
                     after |-> FileBytes(r.files, SpoolPath)])
    /\ UNCHANGED <<g_path_mutexes, holder, thr, appended, spooled, wire, sent, rx,
                   consumed, rd, reads, damage>>
    /\ UNCHANGED <<readerVars, poolVars, roleVars, mainVars>>

AppendNext == AppendBytesCall \/ AppendTFHECall

SpecAppend == AppendInit /\ [][AppendNext]_vars

(***************************************************************************)
(* The life of a spool reader: FileVectorReader (an ifstream) and          *)
(* FileTFHEVectorReader (a C FILE), constructed on a path that may not     *)
(* exist, then any sequence of next() and reset().                         *)
(***************************************************************************)
MaxLifeFrames == 2      \* frames in the file a reader is constructed on
MaxLifeCalls == 5       \* next() and reset() calls on one reader

LifePayloads == {FromSeq(q) : q \in {<<>>, <<7>>, <<0, 0, 0, 1, 16>>}}

RECURSIVE Frames(_)
Frames(q) == IF q = <<>> THEN <<>> ELSE Cat(FrameOf(q[1]), Frames(Tail(q)))

\* What may lie on disk: whole spools and every truncation of one.
LifeContents ==
    LET whole == {Frames(q) : q \in UNION {[1..k -> LifePayloads] :
                                             k \in 0..MaxLifeFrames}}
    IN UNION {{Take(c, k) : k \in 0..Size(c)} : c \in whole}

FreshStream(kind) ==
    [kind |-> kind, pos |-> 0, eofbit |-> FALSE, failbit |-> FALSE]

\* pimpl->ifs.clear(): every state flag of the stream is reset.
IfsClear_Skip(ifs) == ifs

IfsClear(ifs) == [ifs EXCEPT !.eofbit = FALSE, !.failbit = FALSE]

\* pimpl->ifs.seekg(0): does nothing on a stream whose failbit is set.
IfsSeekg0(ifs) == IF ifs.failbit THEN ifs ELSE [ifs EXCEPT !.pos = 0, !.eofbit = FALSE]

\* fseek(pimpl->f, 0, SEEK_SET).
Fseek0(f) == [f EXCEPT !.pos = 0]

\* The constructors.  Impl(p) of FileVectorReader throws when the ifstream
\* is not open; FileTFHEVectorReader keeps f = nullptr when fopen fails.
FileVectorReader(fs, path) ==
    IF path \in DOMAIN fs
    THEN [kind |-> "fstream", state |-> "open"]
    ELSE [kind |-> "fstream", state |-> "ctor_threw"]

FileTFHEVectorReader(fs, path) ==
    IF path \in DOMAIN fs
    THEN [kind |-> "FILE", state |-> "open"]
    ELSE [kind |-> "FILE", state |-> "empty"]

\* next(out): the value returned or the exception thrown, and the stream
\* after; the frame read is taken as a value r, what it deserializes to as d.
ReaderNext(obj, stream, fs, path) ==
    IF obj.kind = "fstream"
    THEN CHOOSE res \in
             {[ret |-> r.ret, out |-> r.out, stream |-> r.ifs] :
                 r \in {read_length_prefixed_bytes_from_ifstream(stream, fs[path])}} :
             TRUE
    ELSE IF obj.state = "empty"
         THEN [ret |-> "false", out |-> <<>>, stream |-> stream]
         ELSE CHOOSE res \in UNION
                 {{IF r.ret # "true"
                   THEN [ret |-> r.ret, out |-> <<>>, stream |-> r.ifs]
                   ELSE IF ~d.ok
                        THEN [ret |-> "throw_deserialization", out |-> <<>>,
                              stream |-> r.ifs]
                        ELSE [ret |-> "true", out |-> d.out, stream |-> r.ifs] :
                     d \in {IF r.ret = "true"
                             THEN deserialize_buffer_to_TFHECiphertextVec(r.out, TRUE, TRUE)
                             ELSE [ok |-> FALSE, out |-> <<>>]}} :
                  r \in {read_length_prefixed_bytes_from_FILE(stream, fs[path])}} :
                 TRUE

\* reset(): the stream afterwards.
ReaderReset(obj, stream) ==
    IF obj.kind = "fstream"
    THEN IfsSeekg0(IfsClear(stream))
    ELSE IF obj.state = "empty" THEN stream ELSE Fseek0(stream)

LifeInit ==
    /\ files \in {<<>>} \cup {(SpoolPath :> c) : c \in LifeContents}
    /\ IdleThreads
    /\ IdleQueue
    /\ IdleReader
    /\ IdleFrame
    /\ IdleObject
    /\ IdlePool
    /\ IdleRoles
    /\ IdleMain

Life_FileVectorReader ==
    /\ reader.kind = "none"
    /\ reader' = FileVectorReader(files, SpoolPath)
    /\ rd' = FreshStream("fstream")
    /\ g_path_mutexes' = IF SpoolPath \in DOMAIN files
                         THEN g_path_mutexes \cup {get_mutex_for_path(SpoolPath)}
                         ELSE g_path_mutexes
    /\ UNCHANGED <<files, holder, thr, appended, spooled, wire, sent, rx, consumed,
                   reads, written, damage>>
    /\ UNCHANGED <<poolVars, roleVars, mainVars>>

Life_FileTFHEVectorReader ==
    /\ reader.kind = "none"
    /\ reader' = FileTFHEVectorReader(files, SpoolPath)
    /\ rd' = FreshStream("FILE")
    /\ g_path_mutexes' = g_path_mutexes \cup {get_mutex_for_path(SpoolPath)}
    /\ UNCHANGED <<files, holder, thr, appended, spooled, wire, sent, rx, consumed,
                   reads, written, damage>>
    /\ UNCHANGED <<poolVars, roleVars, mainVars>>

Life_next ==
    /\ reader.state \in {"open", "empty"}
    /\ Len(reads) < MaxLifeCalls
    /\ LET r == ReaderNext(reader, rd, files, SpoolPath)
       IN /\ rd' = r.stream
          /\ reads' = Append(reads, [ret |-> r.ret, out |-> r.out])
    /\ UNCHANGED <<files, g_path_mutexes, holder, thr, appended, spooled, wire,
                   sent, rx, consumed, written, damage>>
    /\ UNCHANGED <<readerVars, poolVars, roleVars, mainVars>>

Life_reset ==
    /\ reader.state \in {"open", "empty"}
    /\ Len(reads) < MaxLifeCalls
    /\ rd' = ReaderReset(reader, rd)
    /\ reads' = Append(reads, [ret |-> "reset", out |-> <<>>])
    /\ UNCHANGED <<files, g_path_mutexes, holder, thr, appended, spooled, wire,
                   sent, rx, consumed, written, damage>>
    /\ UNCHANGED <<readerVars, poolVars, roleVars, mainVars>>

LifeNext ==
    \/ Life_FileVectorReader
    \/ Life_FileTFHEVectorReader
    \/ Life_next
    \/ Life_reset

SpecLife == LifeInit /\ [][LifeNext]_vars

(***************************************************************************)
(* ZmqPushManager: the pool of push sockets, one per endpoint string, and  *)
(* send_to_endpoint called by several threads.  A socket is named by the   *)
(* number of its creation.  bind may throw (the address is in use); send   *)
(* blocks until the peer takes the message, so it is a step of its own.    *)
(***************************************************************************)
MaxSends == 3           \* send_vector_via_zmq calls of all threads together

Endpoints == {"tcp://*:5556", "tcp://*:5557"}
\* What each thread sends.
PoolPayload(t) == IF t = "t1" THEN FromSeq(<<7>>) ELSE FromSeq(<<9>>)

PoolInit ==
    /\ sockets_ = <<>>
    /\ mutex_ = NoThread
    /\ snd = [t \in Threads |-> [pc |-> "idle", endpoint |-> "", data |-> <<>>,
                                 sock |-> 0, calls |-> 0, at_lock |-> {}]]
    /\ binds = <<>>
    /\ pushed = <<>>
    /\ files = [p \in PathNames |-> <<>>]
    /\ IdleThreads
    /\ IdleQueue
    /\ IdleReader
    /\ IdleFrame
    /\ IdleObject
    /\ IdleRoles
    /\ IdleMain

\* The threads that are inside sock->send(msg).
InSend == {t \in Threads : snd[t].pc = "send"}

\* send_vector_via_zmq(zmq_endpoint, data) is called by thread t.
SendCall(t) ==
    /\ snd[t].pc = "idle"
    /\ snd["t1"].calls < MaxSends - snd["t2"].calls
    /\ \E e \in Endpoints :
          snd' = [snd EXCEPT ![t] = [pc |-> "lock", endpoint |-> e,
                                     data |-> PoolPayload(t),
                                     sock |-> 0, calls |-> @.calls + 1,
                                     at_lock |-> {}]]
    /\ UNCHANGED <<sockets_, mutex_, binds, pushed>>
    /\ UNCHANGED <<spoolVars, readerVars, roleVars, mainVars>>

\* std::unique_lock<std::mutex> lock(mutex_);
PoolLock(t) ==
    /\ snd[t].pc = "lock"
    /\ mutex_ = NoThread
    /\ mutex_' = t
    /\ snd' = [snd EXCEPT ![t].pc = "find", ![t].at_lock = InSend]
    /\ UNCHANGED <<sockets_, binds, pushed>>
    /\ UNCHANGED <<spoolVars, readerVars, roleVars, mainVars>>

\* lock.unlock() before the send: who holds mutex_ once t has its socket.
HolderAfterLookup_Kept(t) == t

HolderAfterLookup(t) == NoThread

\* sockets_.find(endpoint); when absent, a socket is created, its linger
\* set, bound and put into the map; then the lock is released.  When bind
\* throws, the socket is destroyed, the lock released by the unwinding and
\* the exception caught: the call returns and the message is dropped.
PoolLookup(t) ==
    /\ snd[t].pc = "find"
    /\ mutex_ = t
    /\ IF snd[t].endpoint \in DOMAIN sockets_
       THEN /\ snd' = [snd EXCEPT ![t].pc = "send",
                                  ![t].sock = sockets_[snd[t].endpoint]]
            /\ mutex_' = HolderAfterLookup(t)
            /\ UNCHANGED <<sockets_, binds>>
       ELSE \E bound \in BOOLEAN :
              /\ binds' = Append(binds, [endpoint |-> snd[t].endpoint,
                                         sock |-> Len(binds) + 1, by |-> t,
                                         bound |-> bound])
              /\ IF bound
                 THEN /\ sockets_' = (snd[t].endpoint :> (Len(binds) + 1)) @@ sockets_
                      /\ snd' = [snd EXCEPT ![t].pc = "send",
                                            ![t].sock = Len(binds) + 1]
                      /\ mutex_' = HolderAfterLookup(t)
                 ELSE /\ sockets_' = sockets_
                      /\ snd' = [snd EXCEPT ![t].pc = "idle"]
                      /\ mutex_' = NoThread
    /\ UNCHANGED pushed
    /\ UNCHANGED <<spoolVars, readerVars, roleVars, mainVars>>

\* sock->send(msg, zmq::send_flags::none) returns.  A zmq socket is not
\* thread safe: when another thread is inside send on the same socket the
\* result is any of the outcomes below.  A failed send throws and is caught.
SockSend(t) ==
    /\ snd[t].pc = "send"
    /\ LET others == {u \in InSend \ {t} : snd[u].sock = snd[t].sock}
       IN \E outcome \in (IF others = {} THEN {"queued", "send_failed"}
                          ELSE {"queued", "send_failed", "garbled"}) :
             pushed' = Append(pushed, [endpoint |-> snd[t].endpoint,
                                       sock |-> snd[t].sock, by |-> t,
                                       data |-> snd[t].data,
                                       at_lock |-> snd[t].at_lock,
                                       outcome |-> outcome])
    /\ snd' = [snd EXCEPT ![t].pc = "idle"]
    /\ mutex_' = IF mutex_ = t THEN NoThread ELSE mutex_
    /\ UNCHANGED <<sockets_, binds>>
    /\ UNCHANGED <<spoolVars, readerVars, roleVars, mainVars>>

PoolNext ==
    \/ \E t \in Threads : SendCall(t)
    \/ \E t \in Threads : PoolLock(t)
    \/ \E t \in Threads : PoolLookup(t)
    \/ \E t \in Threads : SockSend(t)

SpecPool == PoolInit /\ [][PoolNext]_vars

(***************************************************************************)
(* The roles in ALL_AT_ONCE mode: the mains of Client, Server and TTP.     *)
(* The ciphers are black boxes that are correct: Kreyvium adds a key       *)
(* stream to the bytes, a TFHE ciphertext vector holds one sample per bit, *)
(* and each may throw.                                                     *)
(***************************************************************************)
MaxElements == 2        \* batch_size * batch_number of a run
MaxFaults == 1          \* cipher calls that throw in a run

\* IntegerBlocks of a 16-bit run: what rand() % 256 may give, twice.
IntegerBlocks == {<<1, 2>>, <<91, 0>>, <<90, 0>>}

KeyStream == <<165, 60>>        \* the Kreyvium key stream of one block

ParameterSets ==
    {[variant |-> v, batch_size |-> s, batch_number |-> n] :
        v \in {"HE", "HHE"}, s \in 1..MaxElements, n \in 1..MaxElements}

RECURSIVE XorBits(_, _, _)
XorBits(a, b, k) ==
    IF k = 0 THEN 0
    ELSE (((a % 2) + (b % 2)) % 2) + 2 * XorBits(a \div 2, b \div 2, k - 1)

\* kreyvium_encryptor->encrypt(plaintext, bits), and its inverse.
Kreyvium_encrypt(x) == [j \in 1..Len(x) |-> XorBits(x[j], KeyStream[j], 8)]

\* One TFHE sample per bit, most significant bit of each byte first.
BitOf(x, j) == (x[((j - 1) \div 8) + 1] \div (2 ^ (7 - ((j - 1) % 8)))) % 2

\* heOnlyTFHE_encryptor->HE_encrypt(plaintext, bits).
HE_encrypt(x) == [j \in 1..(8 * Len(x)) |-> 16 + BitOf(x, j)]

\* kreyvium_tfhe_transcipherer->HE_decrypt(ciphertext, bits): the TFHE
\* encryption of the Kreyvium plaintext.
HE_decrypt(c) == HE_encrypt(Kreyvium_encrypt(c))

RECURSIVE ByteFrom(_, _, _)
ByteFrom(v, first, k) ==
    IF k = 0 THEN 0
    ELSE 2 * ByteFrom(v, first, k - 1)
         + (IF v[first + k - 1] = 17 THEN 1 ELSE 0)

\* decrypt_result(ciphertext): the bytes of the bits the samples hold.
decrypt_result(v) == [j \in 1..(Len(v) \div 8) |-> ByteFrom(v, 8 * (j - 1) + 1, 8)]

LinkHHE == "tcp://*:5556 (client)"       \* Client to Server
LinkHE == "tcp://*:5557 (client)"        \* Client to TTP
LinkServer == "tcp://localhost:5557"     \* Server to TTP
LinkNames == {LinkHHE, LinkHE, LinkServer}

file_kreyvium == "data_kreyvium.bin"
file_tfhe == "data_tfhe.bin"
file_decrypted == "data_decrypted.bin"

RoleNames == {"client", "server", "ttp"}

nonFileVars == <<g_path_mutexes, holder, thr, appended, spooled, wire, sent, rx,
                 consumed, rd, reads, written, damage>>

Elements(P) == P.batch_size * P.batch_number

EmptyBatch(P) == [i \in 1..P.batch_size |-> <<>>]

\* The errors raised (and caught) in all roles so far.
TotalErrors == role["client"].errors + role["server"].errors + role["ttp"].errors

\* A cipher call may throw while the run's faults are not used up.
Throws == IF TotalErrors < MaxFaults THEN BOOLEAN ELSE {FALSE}

\* The role goes on after an error it has caught: what it does next counts.
GoesOn(r) == [r EXCEPT !.after = (r.errors > 0)]

Caught(r) == [r EXCEPT !.errors = @ + 1]

\* Where a role's element loop goes after element i of a batch.
AfterElement(r, next) ==
    IF r.i + 1 < r.params.batch_size THEN [r EXCEPT !.i = @ + 1]
    ELSE [r EXCEPT !.i = 0, !.pc = next]

\* A batch loop that tests its counter with <= instead of <.
AfterBatch_OneMore(r, last) ==
    [r EXCEPT !.batch = @ + 1, !.data = EmptyBatch(r.params),
              !.pc = IF r.batch + 1 <= r.params.batch_number THEN "element" ELSE last]

\* Where a role's batch loop goes after a batch; clear_data() empties it.
AfterBatch(r, last) ==
    [r EXCEPT !.batch = @ + 1, !.data = EmptyBatch(r.params),
              !.pc = IF r.batch + 1 < r.params.batch_number THEN "element" ELSE last]

RolesInit ==
    /\ \E P \in ParameterSets :
          /\ Elements(P) <= MaxElements
          /\ role = [n \in RoleNames |->
                        [pc |-> IF n = "client" THEN "ctor"
                                ELSE IF n = "server" /\ P.variant = "HE" THEN "off"
                                ELSE "receive",
                         params |-> P, batch |-> 0, i |-> 0,
                         data |-> EmptyBatch(P), received |-> 0,
                         stream |-> FreshStream("closed"),
                         obj |-> [kind |-> "none", state |-> "none"],
                         errors |-> 0, after |-> FALSE, exit |-> 0]]
    /\ links = [l \in LinkNames |-> <<>>]
    /\ plain = <<>>
    /\ files = <<>>
    /\ IdleThreads
    /\ IdleQueue
    /\ IdleReader
    /\ IdleFrame
    /\ IdleObject
    /\ IdlePool
    /\ IdleMain

\* The messages of a batch: HHE sends the Kreyvium bytes as they are, HE
\* and the Server send the serialized TFHE ciphertext vectors.
RECURSIVE BatchMessages(_, _)
BatchMessages(data, tfhe) ==
    IF data = <<>> THEN <<>>
    ELSE <<IF tfhe
           THEN serialize_TFHECiphertextVec_to_buffer(Head(data), TRUE, TRUE).out
           ELSE FromSeq(Head(data))>> \o BatchMessages(Tail(data), tfhe)

ClientLink(P) == IF P.variant = "HHE" THEN LinkHHE ELSE LinkHE

\* ClientClass(): initialize_zmq_connection() sends the SOF marker.
ClientClass_ctor ==
    /\ role["client"].pc = "ctor"
    /\ links' = [links EXCEPT ![ClientLink(role["client"].params)] =
                     Append(@, SofMarker)]
    /\ role' = [role EXCEPT !["client"].pc = "element"]
    /\ UNCHANGED <<files, plain>>
    /\ UNCHANGED <<nonFileVars, readerVars, poolVars, mainVars>>

\* create_raw_data(); encrypt_data(); for the element at batch_index: rand()
\* gives one of blocks, and the cipher call throws or not as faults has it.
EncryptElement(blocks, faults) ==
    /\ role["client"].pc = "element"
    /\ \E x \in blocks, throws \in faults :
          LET r == GoesOn(role["client"])
              c == IF r.params.variant = "HHE" THEN Kreyvium_encrypt(x)
                   ELSE HE_encrypt(x)
          IN /\ plain' = Append(plain, x)
             /\ role' = [role EXCEPT !["client"] =
                  AfterElement(IF throws THEN Caught(r)
                               ELSE [r EXCEPT !.data[r.i + 1] = c], "transmit")]
    /\ UNCHANGED <<files, links>>
    /\ UNCHANGED <<nonFileVars, readerVars, poolVars, mainVars>>

Client_encrypt_data == EncryptElement(IntegerBlocks, Throws)

\* transmit_data(); clear_data();
Client_transmit_data ==
    /\ role["client"].pc = "transmit"
    /\ LET r == GoesOn(role["client"])
       IN /\ links' = [links EXCEPT ![ClientLink(r.params)] =
                          @ \o BatchMessages(r.data, r.params.variant = "HE")]
          /\ role' = [role EXCEPT !["client"] = AfterBatch(r, "eof")]
    /\ UNCHANGED <<files, plain>>
    /\ UNCHANGED <<nonFileVars, readerVars, poolVars, mainVars>>

\* The EOF marker after the last batch; return 0.
Client_send_eof ==
    /\ role["client"].pc = "eof"
    /\ links' = [links EXCEPT ![ClientLink(role["client"].params)] =
                     Append(@, EofMarker)]
    /\ role' = [role EXCEPT !["client"] =
                   [GoesOn(role["client"]) EXCEPT !.pc = "exited", !.exit = 0]]
    /\ UNCHANGED <<files, plain>>
    /\ UNCHANGED <<nonFileVars, readerVars, poolVars, mainVars>>

\* One turn of the loop of zmq_receive_and_store(path, endpoint,
\* batch_size * batch_number, true) in role n, reading link l.
ReceiveTurn(n, l, path) ==
    /\ role[n].pc = "receive"
    /\ links[l] # <<>>
    /\ links' = [links EXCEPT ![l] = Tail(@)]
    /\ LET msg == Head(links[l])
           r == role[n]
           counted == [max_messages |-> Elements(r.params),
                       received |-> r.received + 1]
       IN IF IsSofFrame(msg)
          THEN /\ role' = role
               /\ files' = files
          ELSE IF IsEofFrame(msg)
               THEN /\ role' = [role EXCEPT ![n].pc = "open"]
                    /\ files' = files
               ELSE /\ files' = (path :> Cat(FileBytes(files, path), FrameOf(msg)))
                                    @@ files
                    /\ role' = [role EXCEPT ![n].received = @ + 1,
                                   ![n].pc = IF LoopPc(counted) = "recv"
                                             THEN "receive" ELSE "open"]
    /\ UNCHANGED plain
    /\ UNCHANGED <<nonFileVars, readerVars, poolVars, mainVars>>

Server_receive_client_data == ReceiveTurn("server", LinkHHE, file_kreyvium)

TTP_receive_tfhe_data ==
    ReceiveTurn("ttp", IF role["ttp"].params.variant = "HHE" THEN LinkServer
                       ELSE LinkHE, file_tfhe)

\* std::make_unique<FileVectorReader>(filename_kreyvium): when it throws,
\* main catches and returns -1.
Server_open_reader ==
    /\ role["server"].pc = "open"
    /\ LET obj == FileVectorReader(files, file_kreyvium)
       IN role' = [role EXCEPT !["server"] =
              IF obj.state = "ctor_threw"
              THEN [Caught(@) EXCEPT !.pc = "exited", !.exit = -1, !.obj = obj]
              ELSE [@ EXCEPT !.pc = "element", !.obj = obj,
                             !.stream = FreshStream("fstream")]]
    /\ UNCHANGED <<files, links, plain>>
    /\ UNCHANGED <<nonFileVars, readerVars, poolVars, mainVars>>

\* std::make_unique<FileTFHEVectorReader>(filename_tfhe, params).
TTP_open_reader ==
    /\ role["ttp"].pc = "open"
    /\ role' = [role EXCEPT !["ttp"].pc = "element",
                            !["ttp"].obj = FileTFHEVectorReader(files, file_tfhe),
                            !["ttp"].stream = FreshStream("FILE")]
    /\ UNCHANGED <<files, links, plain>>
    /\ UNCHANGED <<nonFileVars, readerVars, poolVars, mainVars>>

\* transcipher_data() and decrypt_data(): next() of the role's reader, then
\* the cipher; whatever is thrown is caught inside and the slot stays empty.
ProcessElementIf(n, path, next, faults) ==
    /\ role[n].pc = "element"
    /\ \E throws \in faults :
       \E r \in {GoesOn(role[n])} :
       \E got \in {ReaderNext(r.obj, r.stream, files, path)} :
          LET in == IF got.ret = "true" THEN got.out ELSE <<>>
              r1 == [r EXCEPT !.stream = got.stream]
          IN role' = [role EXCEPT ![n] =
                 AfterElement(
                    IF got.ret \notin {"true", "false"} \/ throws
                    THEN Caught(r1)
                    ELSE [r1 EXCEPT !.data[r.i + 1] =
                             IF n = "server" THEN HE_decrypt(Expand(in))
                             ELSE decrypt_result(in)], next)]
    /\ UNCHANGED <<files, links, plain>>
    /\ UNCHANGED <<nonFileVars, readerVars, poolVars, mainVars>>

ProcessElement(n, path, next) == ProcessElementIf(n, path, next, Throws)

Server_transcipher_data == ProcessElement("server", file_kreyvium, "transmit")

TTP_decrypt_data == ProcessElement("ttp", file_tfhe, "store")

\* transmit_data(); clear_data();
Server_transmit_data ==
    /\ role["server"].pc = "transmit"
    /\ LET r == GoesOn(role["server"])
       IN /\ links' = [links EXCEPT ![LinkServer] = @ \o BatchMessages(r.data, TRUE)]
          /\ role' = [role EXCEPT !["server"] = AfterBatch(r, "eof")]
    /\ UNCHANGED <<files, plain>>
    /\ UNCHANGED <<nonFileVars, readerVars, poolVars, mainVars>>

\* The EOF marker after the last batch; return 0.
Server_send_eof ==
    /\ role["server"].pc = "eof"
    /\ links' = [links EXCEPT ![LinkServer] = Append(@, EofMarker)]
    /\ role' = [role EXCEPT !["server"] =
                   [GoesOn(role["server"]) EXCEPT !.pc = "exited", !.exit = 0]]
    /\ UNCHANGED <<files, plain>>
    /\ UNCHANGED <<nonFileVars, readerVars, poolVars, mainVars>>

RECURSIVE StoreAll(_, _)
StoreAll(fs, data) ==
    IF data = <<>> THEN fs
    ELSE StoreAll(append_vector_to_file(fs, file_decrypted, FromSeq(Head(data)),
                      [opens |-> TRUE, accept |-> 2, params |-> TRUE,
                       tmp |-> TRUE]).files, Tail(data))

\* store_data(); clear_data(); after the last batch, return 0.
TTP_store_data ==
    /\ role["ttp"].pc = "store"
    /\ LET r == GoesOn(role["ttp"])
           b == AfterBatch(r, "exited")
       IN /\ files' = StoreAll((file_decrypted :> FileBytes(files, file_decrypted))
                                  @@ files, r.data)
          /\ role' = [role EXCEPT !["ttp"] = b]
    /\ UNCHANGED <<links, plain>>
    /\ UNCHANGED <<nonFileVars, readerVars, poolVars, mainVars>>

RolesNext ==
    \/ ClientClass_ctor
    \/ Client_encrypt_data
    \/ Client_transmit_data
    \/ Client_send_eof
    \/ Server_receive_client_data
    \/ Server_open_reader
    \/ Server_transcipher_data
    \/ Server_transmit_data
    \/ Server_send_eof
    \/ TTP_receive_tfhe_data
    \/ TTP_open_reader
    \/ TTP_decrypt_data
    \/ TTP_store_data

SpecRoles == RolesInit /\ [][RolesNext]_vars

(***************************************************************************)
(* The TFHE codec on a spool: vectors are appended with                    *)
(* append_vector_to_file(path, data, params) and read back by a            *)
(* FileTFHEVectorReader.  A ciphertext sample is exported as one block.    *)
(***************************************************************************)
MaxCodecSamples == 2    \* samples of one TFHECiphertextVec
MaxCodecVecs == 2       \* vectors appended to the spool
MaxCodecReads == 3      \* next() calls on the reader

CodecVecs == UNION {[1..n -> {16, 17}] : n \in 0..MaxCodecSamples}

\* A file system that accepts every open and write, a non-null parameter
\* set and a tmpfile() that succeeds.
HealthyEnv == [opens |-> TRUE, accept |-> 2, params |-> TRUE, tmp |-> TRUE]

CodecInit ==
    /\ files = <<>>
    /\ IdleThreads
    /\ IdleQueue
    /\ IdleReader
    /\ IdleFrame
    /\ IdleObject
    /\ IdlePool
    /\ IdleRoles
    /\ IdleMain

\* append_vector_to_file(path, v, params); the history keeps v, the buffer
\* the serializer gave and what the deserializer makes of that buffer.
Codec_append ==
    /\ Len(written) < MaxCodecVecs
    /\ \E v \in CodecVecs :
          LET ser == serialize_TFHECiphertextVec_to_buffer(v, HealthyEnv.params,
                                                           HealthyEnv.tmp)
              de == deserialize_buffer_to_TFHECiphertextVec(ser.out,
                        HealthyEnv.params, HealthyEnv.tmp)
              r == append_vector_to_file_TFHE(files, SpoolPath, v, HealthyEnv)
          IN /\ files' = r.files
             /\ written' = Append(written, [v |-> v, ser |-> ser, de |-> de,
                                            status |-> r.status])
    /\ UNCHANGED <<g_path_mutexes, holder, thr, appended, spooled, wire, sent, rx,
                   consumed, rd, reads, damage>>
    /\ UNCHANGED <<readerVars, poolVars, roleVars, mainVars>>

\* FileTFHEVectorReader reader(path, params);
Codec_FileTFHEVectorReader ==
    /\ reader.kind = "none"
    /\ reader' = FileTFHEVectorReader(files, SpoolPath)
    /\ rd' = FreshStream("FILE")
    /\ g_path_mutexes' = g_path_mutexes \cup {get_mutex_for_path(SpoolPath)}
    /\ UNCHANGED <<files, holder, thr, appended, spooled, wire, sent, rx, consumed,
                   reads, written, damage>>
    /\ UNCHANGED <<poolVars, roleVars, mainVars>>

\* reader.next(out);
Codec_next ==
    /\ reader.state \in {"open", "empty"}
    /\ Len(reads) < MaxCodecReads
    /\ LET r == ReaderNext(reader, rd, files, SpoolPath)
       IN /\ rd' = r.stream
          /\ reads' = Append(reads, [ret |-> r.ret, out |-> r.out])
    /\ UNCHANGED <<files, g_path_mutexes, holder, thr, appended, spooled, wire,
                   sent, rx, consumed, written, damage>>
    /\ UNCHANGED <<readerVars, poolVars, roleVars, mainVars>>

CodecNext ==
    \/ Codec_append
    \/ Codec_FileTFHEVectorReader
    \/ Codec_next

SpecCodec == CodecInit /\ [][CodecNext]_vars

(***************************************************************************)
(* get_latest_file_in_directory.  A file name is a sequence of characters; *)
(* a directory is what std::filesystem reports of it: whether the path     *)
(* exists, whether it is a directory, and its entries, which the directory *)
(* iterator yields in an order the caller does not choose.                 *)
(***************************************************************************)
MaxEntries == 3         \* entries of the directory
MaxLookups == 2         \* get_latest_file_in_directory calls

Digits == {"0", "1", "2", "3", "4", "5", "6", "7", "8", "9"}

\* The character codes std::string compares by.
CharCode(c) ==
    CASE c = "-" -> 45 [] c = "." -> 46
      [] c = "0" -> 48 [] c = "1" -> 49 [] c = "2" -> 50 [] c = "3" -> 51
      [] c = "4" -> 52 [] c = "5" -> 53 [] c = "6" -> 54 [] c = "7" -> 55
      [] c = "8" -> 56 [] c = "9" -> 57
      [] c = "_" -> 95
      [] c = "b" -> 98 [] c = "e" -> 101 [] c = "k" -> 107 [] c = "t" -> 116
      [] c = "x" -> 120 [] c = "y" -> 121

\* a > b on std::string.
RECURSIVE StringGreater(_, _)
StringGreater(a, b) ==
    IF a = <<>> THEN FALSE
    ELSE IF b = <<>> THEN TRUE
    ELSE IF CharCode(Head(a)) # CharCode(Head(b))
         THEN CharCode(Head(a)) > CharCode(Head(b))
         ELSE StringGreater(Tail(a), Tail(b))

\* std::regex_search(filename, match, "^(\d{8}_\d{6}).*"): match[1], or the
\* empty sequence when the name does not match.
timestamp_regex(filename) ==
    IF /\ Len(filename) >= 15
       /\ \A k \in 1..8 : filename[k] \in Digits
       /\ filename[9] = "_"
       /\ \A k \in 10..15 : filename[k] \in Digits
    THEN SubSeq(filename, 1, 15)
    ELSE <<>>

EmptyPath == [dir |-> "", name |-> <<>>]

\* if (timestamp > latest_timestamp)
Newer_Always(timestamp, latest_timestamp) == TRUE

Newer(timestamp, latest_timestamp) == StringGreater(timestamp, latest_timestamp)

\* The loop over the directory iterator, from the entry at the head of
\* entries on.
RECURSIVE LatestFrom(_, _, _, _)
LatestFrom(directory_path, entries, latest_file, latest_timestamp) ==
    IF entries = <<>> THEN latest_file
    ELSE LET entry == Head(entries)
             timestamp == timestamp_regex(entry.name)
         IN IF entry.regular /\ timestamp # <<>> /\ Newer(timestamp, latest_timestamp)
            THEN LatestFrom(directory_path, Tail(entries),
                            [dir |-> directory_path, name |-> entry.name], timestamp)
            ELSE LatestFrom(directory_path, Tail(entries), latest_file,
                            latest_timestamp)

get_latest_file_in_directory(directory_path, d, entries) ==
    IF ~d.exists \/ ~d.is_directory THEN EmptyPath
    ELSE LatestFrom(directory_path, entries, EmptyPath, <<>>)

\* The orders in which a directory iterator may yield the entries S.
Orders(S) ==
    {q \in [1..Cardinality(S) -> S] :
        \A i, j \in 1..Cardinality(S) : q[i] = q[j] => i = j}

Stamp(days, seconds) ==
    <<"2", "0", "2", "6", "1", "1", "0", days, "_", "1", "2", "0", "0", "0", seconds>>

\* Names with and without the stamp, and names that nearly have one.
FileNames ==
    { Stamp("5", "1") \o <<"_", "k">>,
      Stamp("5", "2") \o <<"_", "k">>,
      Stamp("5", "2") \o <<"_", "t">>,
      Stamp("5", "1"),
      <<"x">> \o Stamp("9", "9") \o <<"_", "k">>,
      <<"2", "0", "2", "6", "1", "1", "0", "9", "-", "1", "2", "0", "0", "0", "9">>,
      <<"2", "0", "2", "6", "1", "1", "0", "9", "_", "1", "2", "0", "0", "0", "x">>,
      <<"2", "0", "2", "6", "1", "1", "9", "_", "1", "2", "0", "0", "0", "9", ".", "b">>,
      <<"k", "e", "y">> }

LatestDir == "../data_kreyvium/"

\* What may be at the path: nothing, something that is not a directory, or
\* a directory whose entries have different names.
Listings ==
    {[exists |-> FALSE, is_directory |-> FALSE, entries |-> {}],
     [exists |-> TRUE, is_directory |-> FALSE, entries |-> {}]}
    \cup {[exists |-> TRUE, is_directory |-> TRUE, entries |-> S] :
             S \in UNION {{{[name |-> n, regular |-> f[n]] : n \in T} :
                             f \in [T -> BOOLEAN]} :
                          T \in {U \in SUBSET FileNames :
                                    Cardinality(U) <= MaxEntries}}}

LatestInit ==
    /\ listing \in Listings
    /\ peers = {}
    /\ now = 0
    /\ files = <<>>
    /\ IdleThreads
    /\ IdleQueue
    /\ IdleReader
    /\ IdleFrame
    /\ IdleObject
    /\ IdlePool
    /\ IdleRoles

\* get_latest_file_in_directory(directory_path);
Latest_call ==
    /\ Len(reads) < MaxLookups
    /\ \E entries \in Orders(listing.entries) :
          reads' = Append(reads,
                      [ret |-> get_latest_file_in_directory(LatestDir, listing,
                                                           entries)])
    /\ UNCHANGED <<files, g_path_mutexes, holder, thr, appended, spooled, wire,
                   sent, rx, consumed, rd, written, damage>>
    /\ UNCHANGED <<readerVars, poolVars, roleVars, mainVars>>

LatestNext == Latest_call

SpecLatest == LatestInit /\ [][LatestNext]_vars

(***************************************************************************)
(* The three mains under every data_handling value.  The roles are started *)
(* one after another, a second or more apart, in any order; their spools   *)
(* lie in directories the roles share; a push                              *)
(* blocks while no pull socket is connected to the endpoint, and a pull    *)
(* socket is connected for the time of one zmq_receive_and_store call.     *)
(***************************************************************************)
DataHandlings ==
    {"SINGLE_COMPONENT", "ALL_AT_ONCE", "TRANSMIT_KREYVIUM", "TRANSMIT_TFHE"}

MainParameterSets ==
    {P \in [variant : {"HE", "HHE"}, batch_size : 1..MaxElements,
            batch_number : 1..MaxElements, data_handling : DataHandlings] :
        Elements(P) <= MaxElements}

Transmits(P) == P.data_handling \in {"TRANSMIT_TFHE", "TRANSMIT_KREYVIUM"}

DirKreyvium == "../data_kreyvium/"
DirTFHE == "../data_tfhe/"
DirEncryptedTFHE == "../data_encrypted_tfhe/"
DirDecrypted == "../data_decrypted/"

\* std::strftime(buf, sizeof(buf), "%Y%m%d_%H%M%S", ...) at second t of the
\* day of the run.
datetimestamp(t) ==
    Stamp("5", <<"0", "1", "2", "3", "4", "5", "6", "7", "8", "9">>[t + 1])

\* directory + filename_prefix + the spool's own name.
SpoolFile(dir, stamp, tail) == [dir |-> dir, name |-> stamp \o <<"_", tail>>]

\* What earlier runs may have left in the directories: nothing, one spool
\* of one frame in each, or spools that a transmission has emptied.
StaleStamp == Stamp("4", "0")

StaleSpools ==
    LET k == SpoolFile(DirKreyvium, StaleStamp, "k")
        t == SpoolFile(DirTFHE, StaleStamp, "t")
        e == SpoolFile(DirEncryptedTFHE, StaleStamp, "t")
        kf == FrameOf(FromSeq(Kreyvium_encrypt(<<1, 2>>)))
        tf == FrameOf(serialize_TFHECiphertextVec_to_buffer(HE_encrypt(<<1, 2>>),
                                                           TRUE, TRUE).out)
    IN {<<>>,
        (k :> kf) @@ (t :> tf) @@ (e :> tf),
        (k :> <<>>) @@ (t :> <<>>) @@ (e :> <<>>)}

\* The regular files of a directory, as its iterator reports them.
DirEntries(fs, dir) ==
    {[name |-> p.name, regular |-> TRUE] : p \in {q \in DOMAIN fs : q.dir = dir}}

LatestIn_AnySpool(fs, dir) == {p \in DOMAIN fs : p.dir = dir} \cup {EmptyPath}

\* The results get_latest_file_in_directory(dir) may give.
LatestIn(fs, dir) ==
    {get_latest_file_in_directory(dir, [exists |-> TRUE, is_directory |-> TRUE],
                                  entries) : entries \in Orders(DirEntries(fs, dir))}

\* The endpoint a role pushes to.
SendLink(n, P) == IF n = "client" THEN ClientLink(P) ELSE LinkServer

\* The endpoint a role pulls from.
ReceiveLink(n, P) ==
    IF n = "server" THEN LinkHHE
    ELSE IF P.variant = "HHE" THEN LinkServer ELSE LinkHE

\* The role is about to push msgs, one send_vector_via_zmq call each, and
\* goes to resume when the last call has returned.
ThenSend(r, msgs, resume) ==
    IF msgs = <<>> THEN [r EXCEPT !.pc = resume]
    ELSE [r EXCEPT !.pc = "send", !.outbox = msgs, !.resume = resume]

MainInit ==
    /\ \E P \in MainParameterSets :
          role = [n \in RoleNames |->
                     [pc |-> "off", params |-> P, batch |-> 0, i |-> 0,
                      data |-> EmptyBatch(P), received |-> 0,
                      stream |-> FreshStream("closed"),
                      obj |-> [kind |-> "none", state |-> "none"],
                      errors |-> 0, after |-> FALSE, exit |-> 0,
                      filename_kreyvium |-> EmptyPath, filename_tfhe |-> EmptyPath,
                      filename_decrypted |-> EmptyPath,
                      outbox |-> <<>>, resume |-> "off", log |-> <<>>,
                      latest_file |-> EmptyPath, before |-> {}]]
    /\ files \in StaleSpools
    /\ links = [l \in LinkNames |-> <<>>]
    /\ plain = <<>>
    /\ peers = {}
    /\ now = 0
    /\ listing = <<>>
    /\ IdleThreads
    /\ IdleQueue
    /\ IdleReader
    /\ IdleFrame
    /\ IdleObject
    /\ IdlePool

\* The roles that had exited when a role was started.
Exited == {n \in RoleNames : role[n].pc = "exited"}

\* The roles that can still be started; the Server is part of HHE only.
Startable ==
    {n \in RoleNames : /\ role[n].pc = "off"
                       /\ n = "server" => role[n].params.variant = "HHE"}

\* A pull socket of some other process connects to the Client's endpoint;
\* in SINGLE_COMPONENT no role of the framework pulls.
Main_foreign_pull ==
    /\ role["client"].params.data_handling = "SINGLE_COMPONENT"
    /\ ClientLink(role["client"].params) \notin peers
    /\ peers' = peers \cup {ClientLink(role["client"].params)}
    /\ UNCHANGED <<now, listing>>
    /\ UNCHANGED <<spoolVars, readerVars, poolVars, roleVars>>

\* One send_vector_via_zmq call of a role that is pushing: sock->send
\* returns when the message is queued to a connected pull socket.
Main_send(n) ==
    /\ role[n].pc = "send"
    /\ SendLink(n, role[n].params) \in peers
    /\ LET r == role[n]
           msg == Head(r.outbox)
       IN /\ links' = [links EXCEPT ![SendLink(n, r.params)] = Append(@, msg)]
          /\ role' = [role EXCEPT ![n] =
                 IF Tail(r.outbox) = <<>>
                 THEN [r EXCEPT !.outbox = <<>>, !.pc = r.resume,
                                !.log = Append(@, msg)]
                 ELSE [r EXCEPT !.outbox = Tail(@), !.log = Append(@, msg)]]
    /\ UNCHANGED <<files, plain>>
    /\ UNCHANGED <<nonFileVars, readerVars, poolVars, mainVars>>

\* ClientClass clientClass = ClientClass(); the constructor names the
\* variant's spool and sends the SOF marker; main then dispatches on
\* data_handling and, for the batch loop, calls clear_data().
Main_Client_start ==
    /\ role["client"].pc = "off"
    /\ LET r == role["client"]
           P == r.params
           named == [r EXCEPT
                       !.filename_kreyvium =
                           IF P.variant = "HHE"
                           THEN SpoolFile(DirKreyvium, datetimestamp(now), "k")
                           ELSE EmptyPath,
                       !.filename_tfhe =
                           IF P.variant = "HE"
                           THEN SpoolFile(DirTFHE, datetimestamp(now), "t")
                           ELSE EmptyPath,
                       !.before = Exited]
       IN role' = [role EXCEPT !["client"] =
              ThenSend(named, <<SofMarker>>,
                       IF Transmits(P) THEN "latest" ELSE "element")]
    /\ now' = now + 1
    /\ UNCHANGED <<files, links, plain, peers, listing>>
    /\ UNCHANGED <<nonFileVars, readerVars, poolVars>>
\* The blocks rand() gives in these runs: one whose Kreyvium ciphertext
\* begins with an ordinary byte and one whose ciphertext begins with 0xFF.
MainBlocks == {<<1, 2>>, <<90, 0>>}

\* create_raw_data(); encrypt_data(); in a run whose cipher calls succeed.
Main_Client_encrypt_data == EncryptElement(MainBlocks, {FALSE})

\* std::ofstream file(filename, std::ios::binary | std::ios::app); then one
\* append_vector_to_file call for every slot of the batch.
RECURSIVE AppendAll(_, _, _, _)
AppendAll(fs, path, data, tfhe) ==
    IF data = <<>> THEN fs
    ELSE CHOOSE out \in
             {AppendAll(appended_to, path, Tail(data), tfhe) :
                 appended_to \in
                    {IF tfhe
                     THEN append_vector_to_file_TFHE(fs, path, Head(data),
                                                     HealthyEnv).files
                     ELSE append_vector_to_file(fs, path, FromSeq(Head(data)),
                                                HealthyEnv).files}} : TRUE

CreateAndAppendAll_Truncating(fs, path, data, tfhe) ==
    AppendAll((path :> <<>>) @@ fs, path, data, tfhe)

CreateAndAppendAll(fs, path, data, tfhe) ==
    AppendAll((path :> FileBytes(fs, path)) @@ fs, path, data, tfhe)

\* while (reader.next(tmp)) result.push_back(tmp): the vectors read and
\* what the last next() gave.
RECURSIVE ReadAll(_, _, _, _, _)
ReadAll(obj, stream, fs, path, items) ==
    LET r == ReaderNext(obj, stream, fs, path)
    IN IF r.ret = "true"
       THEN ReadAll(obj, r.stream, fs, path, Append(items, r.out))
       ELSE [items |-> items, ret |-> r.ret]

\* transmit_data(); clear_data(); of the Client and the Server:
\* SINGLE_COMPONENT appends the batch to the spool, ALL_AT_ONCE pushes it.
\* After the last batch SINGLE_COMPONENT has nothing left to do and main
\* returns 0.
Main_transmit_data(n) ==
    /\ role[n].pc = "transmit"
    /\ LET r == GoesOn(role[n])
           P == r.params
           tfhe == n = "server" \/ P.variant = "HE"
           path == IF tfhe THEN r.filename_tfhe ELSE r.filename_kreyvium
       IN IF P.data_handling = "SINGLE_COMPONENT"
          THEN /\ files' = CreateAndAppendAll(files, path, r.data, tfhe)
               /\ role' = [role EXCEPT ![n] = AfterBatch(r, "exited")]
          ELSE /\ files' = files
               /\ role' = [role EXCEPT ![n] =
                      ThenSend(AfterBatch(r, "eof"), BatchMessages(r.data, tfhe),
                               AfterBatch(r, "eof").pc)]
    /\ UNCHANGED <<links, plain>>
    /\ UNCHANGED <<nonFileVars, readerVars, poolVars, mainVars>>

Main_finalize_Silent(n) ==
    /\ role[n].pc = "eof"
    /\ role' = [role EXCEPT ![n] = [GoesOn(@) EXCEPT !.pc = "exited"]]
    /\ UNCHANGED <<files, links, plain>>
    /\ UNCHANGED <<nonFileVars, readerVars, poolVars, mainVars>>

\* The EOF marker that ends a role's transmission; main then returns 0.
Main_finalize(n) ==
    /\ role[n].pc = "eof"
    /\ role' = [role EXCEPT ![n] = ThenSend(GoesOn(@), <<EofMarker>>, "exited")]
    /\ UNCHANGED <<files, links, plain>>
    /\ UNCHANGED <<nonFileVars, readerVars, poolVars, mainVars>>

\* What send_all_vectors_via_zmq reads from the spool before it sends:
\* read_all_vectors_from_file(path) of the byte flavour, whose reader
\* throws when the spool cannot be opened, and the while (reader.next(item))
\* loop of the TFHE flavour.
ReadLatest(fs, latest_file, tfhe) ==
    IF tfhe
    THEN ReadAll(FileTFHEVectorReader(fs, latest_file), FreshStream("FILE"),
                 fs, latest_file, <<>>)
    ELSE IF FileVectorReader(fs, latest_file).state = "ctor_threw"
         THEN [items |-> <<>>, ret |-> "ctor_threw"]
         ELSE ReadAll(FileVectorReader(fs, latest_file), FreshStream("fstream"),
                      fs, latest_file, <<>>)

\* send_all_vectors_via_zmq(latest_file, endpoint) up to its sends, inside
\* transmit_latest_data(): the byte flavour reads the whole spool first and
\* throws when the spool cannot be opened or a frame is damaged; the TFHE
\* flavour sends what it could read.  An exception ends transmit_latest_data
\* in its catch block, and main returns 0.
SendAllVectors(r, all, tfhe) ==
    IF tfhe
    THEN IF all.ret = "false"
         THEN ThenSend(r, BatchMessages(all.items, TRUE), "truncate")
         ELSE ThenSend(Caught(r), BatchMessages(all.items, TRUE), "exited")
    ELSE IF all.ret # "false"
         THEN [Caught(r) EXCEPT !.pc = "exited"]
         ELSE IF all.items = <<>>
              THEN [r EXCEPT !.pc = "eof"]
              ELSE ThenSend(r, all.items, "truncate")

\* transmit_latest_data() of the Client (the variant's spool directory)
\* and of the Server (the TFHE spool directory).
Main_transmit_latest_data(n) ==
    /\ role[n].pc = "latest"
    /\ \E tfhe \in {n = "server" \/ role[n].params.variant = "HE"} :
       \E latest_file \in LatestIn(files, IF tfhe THEN DirTFHE ELSE DirKreyvium) :
       \E all \in {ReadLatest(files, latest_file, tfhe)} :
       \E r \in {[GoesOn(role[n]) EXCEPT !.latest_file = latest_file]} :
          role' = [role EXCEPT ![n] = SendAllVectors(r, all, tfhe)]
    /\ UNCHANGED <<files, links, plain>>
    /\ UNCHANGED <<nonFileVars, readerVars, poolVars, mainVars>>

\* if (remove_after_send) { fopen(path, "wb"); fclose } : the spool that
\* was sent is emptied; then the EOF marker follows.
Main_truncate(n) ==
    /\ role[n].pc = "truncate"
    /\ files' = IF role[n].latest_file \in DOMAIN files
                THEN (role[n].latest_file :> <<>>) @@ files
                ELSE files
    /\ role' = [role EXCEPT ![n].pc = "eof"]
    /\ UNCHANGED <<links, plain>>
    /\ UNCHANGED <<nonFileVars, readerVars, poolVars, mainVars>>
\* One turn of the loop of zmq_receive_and_store(path, endpoint,
\* batch_size * batch_number, true) in role n; when the loop ends the pull
\* socket goes away and the role goes on where its main has it go.
Main_receive(n) ==
    /\ role[n].pc = "receive"
    /\ LET r == role[n]
           l == ReceiveLink(n, r.params)
           path == IF n = "server" THEN r.filename_kreyvium ELSE r.filename_tfhe
           msg == Head(links[l])
           counted == [max_messages |-> Elements(r.params),
                       received |-> r.received + 1]
       IN /\ links[l] # <<>>
          /\ links' = [links EXCEPT ![l] = Tail(@)]
          /\ IF IsSofFrame(msg)
             THEN /\ role' = role
                  /\ files' = files
                  /\ peers' = peers
             ELSE IF IsEofFrame(msg)
                  THEN /\ role' = [role EXCEPT ![n].pc = r.resume]
                       /\ files' = files
                       /\ peers' = peers \ {l}
                  ELSE /\ files' = (path :> Cat(FileBytes(files, path), FrameOf(msg)))
                                       @@ files
                       /\ role' = [role EXCEPT ![n].received = @ + 1,
                                      ![n].pc = IF LoopPc(counted) = "recv"
                                                THEN "receive" ELSE r.resume]
                       /\ peers' = IF LoopPc(counted) = "recv" THEN peers
                                   ELSE peers \ {l}
    /\ UNCHANGED <<plain, now, listing>>
    /\ UNCHANGED <<nonFileVars, readerVars, poolVars>>

\* ServerClass serverClass = ServerClass(); the constructor names both
\* spools; main dispatches on data_handling: TRANSMIT_KREYVIUM only
\* receives, TRANSMIT_TFHE only re-sends, SINGLE_COMPONENT takes the latest
\* Kreyvium spool, ALL_AT_ONCE receives into its own.
Main_Server_start ==
    /\ "server" \in Startable
    /\ LET r == role["server"]
           P == r.params
           named == [r EXCEPT
                       !.filename_tfhe = SpoolFile(DirTFHE, datetimestamp(now), "t"),
                       !.filename_kreyvium =
                           SpoolFile(DirKreyvium, datetimestamp(now), "k"),
                       !.before = Exited]
       IN CASE P.data_handling = "TRANSMIT_KREYVIUM" ->
                  /\ role' = [role EXCEPT !["server"] =
                         [named EXCEPT !.pc = "receive", !.resume = "exited"]]
                  /\ peers' = peers \cup {LinkHHE}
            [] P.data_handling = "TRANSMIT_TFHE" ->
                  /\ role' = [role EXCEPT !["server"] = [named EXCEPT !.pc = "latest"]]
                  /\ peers' = peers
            [] P.data_handling = "SINGLE_COMPONENT" ->
                  /\ \E latest_file \in LatestIn(files, DirKreyvium) :
                        role' = [role EXCEPT !["server"] =
                            [named EXCEPT !.pc = "open",
                                          !.filename_kreyvium = latest_file]]
                  /\ peers' = peers
            [] P.data_handling = "ALL_AT_ONCE" ->
                  /\ role' = [role EXCEPT !["server"] =
                         [named EXCEPT !.pc = "receive", !.resume = "open"]]
                  /\ peers' = peers \cup {LinkHHE}
    /\ now' = now + 1
    /\ UNCHANGED <<files, links, plain, listing>>
    /\ UNCHANGED <<nonFileVars, readerVars, poolVars>>

\* std::make_unique<FileVectorReader>(serverClass.get_filename_kreyvium()):
\* when it throws, main catches and returns -1.
Main_Server_open_reader ==
    /\ role["server"].pc = "open"
    /\ LET obj == FileVectorReader(files, role["server"].filename_kreyvium)
       IN role' = [role EXCEPT !["server"] =
              IF obj.state = "ctor_threw"
              THEN [Caught(@) EXCEPT !.pc = "exited", !.exit = -1, !.obj = obj]
              ELSE [@ EXCEPT !.pc = "element", !.obj = obj,
                             !.stream = FreshStream("fstream")]]
    /\ UNCHANGED <<files, links, plain>>
    /\ UNCHANGED <<nonFileVars, readerVars, poolVars, mainVars>>

Main_Server_transcipher_data ==
    ProcessElementIf("server", role["server"].filename_kreyvium, "transmit", {FALSE})

\* TTPClass ttpClass = TTPClass(); the constructor names both spools; main
\* dispatches on data_handling: TRANSMIT_TFHE only receives,
\* SINGLE_COMPONENT takes the latest spool of ../data_encrypted_tfhe/ and
\* returns 0 when there is none, every other value receives into its own.
Main_TTP_start ==
    /\ role["ttp"].pc = "off"
    /\ LET r == role["ttp"]
           P == r.params
           named == [r EXCEPT
                       !.filename_decrypted =
                           SpoolFile(DirDecrypted, datetimestamp(now), "k"),
                       !.filename_tfhe =
                           SpoolFile(DirEncryptedTFHE, datetimestamp(now), "t"),
                       !.before = Exited]
       IN CASE P.data_handling = "TRANSMIT_TFHE" ->
                  /\ role' = [role EXCEPT !["ttp"] =
                         [named EXCEPT !.pc = "receive", !.resume = "exited"]]
                  /\ peers' = peers \cup {ReceiveLink("ttp", P)}
            [] P.data_handling = "SINGLE_COMPONENT" ->
                  /\ \E latest_file \in LatestIn(files, DirEncryptedTFHE) :
                        role' = [role EXCEPT !["ttp"] =
                            [named EXCEPT
                               !.pc = IF latest_file = EmptyPath THEN "exited"
                                      ELSE "open",
                               !.filename_tfhe = latest_file]]
                  /\ peers' = peers
            [] P.data_handling \in {"ALL_AT_ONCE", "TRANSMIT_KREYVIUM"} ->
                  /\ role' = [role EXCEPT !["ttp"] =
                         [named EXCEPT !.pc = "receive", !.resume = "open"]]
                  /\ peers' = peers \cup {ReceiveLink("ttp", P)}
    /\ now' = now + 1
    /\ UNCHANGED <<files, links, plain, listing>>
    /\ UNCHANGED <<nonFileVars, readerVars, poolVars>>

\* std::make_unique<FileTFHEVectorReader>(ttpClass.get_filename_tfhe(), ...).
Main_TTP_open_reader ==
    /\ role["ttp"].pc = "open"
    /\ role' = [role EXCEPT
                  !["ttp"].pc = "element",
                  !["ttp"].obj = FileTFHEVectorReader(files, role["ttp"].filename_tfhe),
                  !["ttp"].stream = FreshStream("FILE")]
    /\ UNCHANGED <<files, links, plain>>
    /\ UNCHANGED <<nonFileVars, readerVars, poolVars, mainVars>>

Main_TTP_decrypt_data ==
    ProcessElementIf("ttp", role["ttp"].filename_tfhe, "store", {FALSE})

\* store_data(); clear_data(); after the last batch main returns 0.
Main_TTP_store_data ==
    /\ role["ttp"].pc = "store"
    /\ LET r == GoesOn(role["ttp"])
       IN /\ files' = CreateAndAppendAll(files, r.filename_decrypted, r.data, FALSE)
          /\ role' = [role EXCEPT !["ttp"] = AfterBatch(r, "exited")]
    /\ UNCHANGED <<links, plain>>
    /\ UNCHANGED <<nonFileVars, readerVars, poolVars, mainVars>>

MainNext ==
    \/ Main_foreign_pull
    \/ Main_Client_start
    \/ Main_Client_encrypt_data
    \/ Main_transmit_data("client")
    \/ Main_transmit_latest_data("client")
    \/ Main_truncate("client")
    \/ Main_finalize("client")
    \/ Main_send("client")
    \/ Main_Server_start
    \/ Main_receive("server")
    \/ Main_Server_open_reader
    \/ Main_Server_transcipher_data
    \/ Main_transmit_data("server")
    \/ Main_transmit_latest_data("server")
    \/ Main_truncate("server")
    \/ Main_finalize("server")
    \/ Main_send("server")
    \/ Main_TTP_start
    \/ Main_receive("ttp")
    \/ Main_TTP_open_reader
    \/ Main_TTP_decrypt_data
    \/ Main_TTP_store_data

SpecMain == MainInit /\ [][MainNext]_vars

\* The Client on its own: no Server and no TTP process is started, so the
\* only pull socket that can connect to its endpoint is a foreign one.  The
\* steps of the Client process are those of its main up to the first push
\* that no pull socket takes; once started the process runs whenever it
\* can, and nothing promises that a pull socket connects.
Main_Client_step ==
    \/ Main_Client_start
    \/ Main_Client_encrypt_data
    \/ Main_transmit_data("client")
    \/ Main_send("client")

AloneNext ==
    \/ Main_foreign_pull
    \/ Main_Client_start
    \/ Main_Client_encrypt_data
    \/ Main_transmit_data("client")
    \/ Main_send("client")

SpecAlone == MainInit /\ [][AloneNext]_vars /\ WF_vars(Main_Client_step)

(***************************************************************************)
(* The mutex registry under several spellings of a path.  A path is the    *)
(* sequence of its segments; the file system opens the file the path       *)
(* resolves to, the registry looks the string up as it was given.          *)
(***************************************************************************)
MaxKeyCalls == 1        \* append_vector_to_file calls per thread

\* The file a relative path denotes: "." segments dropped, "name/.."
\* folded, leading ".." kept.
RECURSIVE Resolve(_, _)
Resolve(done, rest) ==
    IF rest = <<>> THEN done
    ELSE IF Head(rest) = "." THEN Resolve(done, Tail(rest))
    ELSE IF Head(rest) = ".." /\ done # <<>> /\ done[Len(done)] # ".."
         THEN Resolve(SubSeq(done, 1, Len(done) - 1), Tail(rest))
         ELSE Resolve(Append(done, Head(rest)), Tail(rest))

FileOf(path) == Resolve(<<>>, path)

\* Spellings of two spool files.
KeySpellings ==
    {<<"..", "data_kreyvium", "a.bin">>,
     <<".", "..", "data_kreyvium", "a.bin">>,
     <<"..", "data_tfhe", "..", "data_kreyvium", "a.bin">>,
     <<"..", "data_kreyvium", "b.bin">>}

\* The payloads appended: none is empty, so every frame takes both writes.
KeyPayloads == {FromSeq(q) : q \in {<<7>>, <<0, 9>>}}

KeysInit ==
    /\ files = [f \in {FileOf(p) : p \in KeySpellings} |-> <<>>]
    /\ thr = [t \in Threads |-> [pc |-> "idle", data |-> <<>>, path |-> <<>>]]
    /\ appended = [t \in Threads |-> <<>>]
    /\ spooled = <<>>
    /\ g_path_mutexes = {}
    /\ holder = [p \in KeySpellings |-> NoThread]
    /\ IdleQueue
    /\ IdleReader
    /\ IdleFrame
    /\ IdleObject
    /\ IdlePool
    /\ IdleRoles
    /\ IdleMain

\* append_vector_to_file(path, data) is called by thread t:
\* auto m = get_mutex_for_path(path); creates the entry when the string
\* is not yet a key.
Keys_append_vector_to_file(t) ==
    /\ thr[t].pc = "idle"
    /\ Len(appended[t]) < MaxKeyCalls
    /\ \E path \in KeySpellings, data \in KeyPayloads :
          /\ thr' = [thr EXCEPT ![t] = [pc |-> "lock", data |-> data, path |-> path]]
          /\ g_path_mutexes' = g_path_mutexes \cup {get_mutex_for_path(path)}
    /\ UNCHANGED <<files, holder, appended, spooled, wire, sent, rx, consumed, rd,
                   reads, written, damage>>
    /\ UNCHANGED <<readerVars, poolVars, roleVars, mainVars>>

\* std::lock_guard<std::mutex> lk(*m); the ofstream is opened to append.
Keys_lock(t) ==
    /\ thr[t].pc = "lock"
    /\ LockAvailable(get_mutex_for_path(thr[t].path))
    /\ holder' = [holder EXCEPT ![get_mutex_for_path(thr[t].path)] = t]
    /\ thr' = [thr EXCEPT ![t].pc = "write_length"]
    /\ UNCHANGED <<files, g_path_mutexes, appended, spooled, wire, sent, rx,
                   consumed, rd, reads, written, damage>>
    /\ UNCHANGED <<readerVars, poolVars, roleVars, mainVars>>

\* The first write of write_length_prefixed_bytes_to_ofstream: the length.
Keys_write_length(t) ==
    /\ thr[t].pc = "write_length"
    /\ LET f == FileOf(thr[t].path)
           o1 == OfsWrite([bytes |-> files[f], bad |-> FALSE, accept |-> 2],
                          FromSeq(htonl(ToUint32(Size(thr[t].data)))))
       IN files' = [files EXCEPT ![f] = o1.bytes]
    /\ thr' = [thr EXCEPT ![t].pc = "write_payload"]
    /\ UNCHANGED <<g_path_mutexes, holder, appended, spooled, wire, sent, rx,
                   consumed, rd, reads, written, damage>>
    /\ UNCHANGED <<readerVars, poolVars, roleVars, mainVars>>

\* The second write, the payload; ofs.flush(); the scope ends and the
\* mutex is released.
Keys_write_payload(t) ==
    /\ thr[t].pc = "write_payload"
    /\ LET f == FileOf(thr[t].path)
           o2 == OfsWrite([bytes |-> files[f], bad |-> FALSE, accept |-> 1],
                          thr[t].data)
       IN files' = [files EXCEPT ![f] = o2.bytes]
    /\ holder' = [holder EXCEPT ![get_mutex_for_path(thr[t].path)] = NoThread]
    /\ appended' = [appended EXCEPT ![t] = Append(@, thr[t].data)]
    /\ spooled' = Append(spooled, thr[t].data)
    /\ thr' = [thr EXCEPT ![t].pc = "idle"]
    /\ UNCHANGED <<g_path_mutexes, wire, sent, rx, consumed, rd, reads, written,
                   damage>>
    /\ UNCHANGED <<readerVars, poolVars, roleVars, mainVars>>

KeysNext ==
    \/ Keys_append_vector_to_file("t1")
    \/ Keys_append_vector_to_file("t2")
    \/ Keys_lock("t1")
    \/ Keys_lock("t2")
    \/ Keys_write_length("t1")
    \/ Keys_write_length("t2")
    \/ Keys_write_payload("t1")
    \/ Keys_write_payload("t2")

SpecKeys == KeysInit /\ [][KeysNext]_vars

(***************************************************************************)
(* The raw data of the Client's batch loop.  data_raw has one slot per     *)
(* element of a batch; create_raw_data() pushes integer_size / 8 random    *)
(* bytes onto the slot at batch_index, encrypt_data() hands that slot to   *)
(* the encryptor, and clear_data() empties all slots after every batch.    *)
(* plain is the sequence of blocks the encryptor was given.                *)
(***************************************************************************)
IntegerSizes == {8, 16}     \* get_integer_size(): two of 8, 16, 32, 64, 128

RawBytes == {0, 255}        \* the values rand() % 256 takes in these runs

RawParameterSets ==
    {P \in [integer_size : IntegerSizes, batch_size : 1..MaxElements,
            batch_number : 1..MaxElements] : Elements(P) <= MaxElements}

\* data_raw.resize(batch_size) alone: the slots keep what they hold.
clear_data_ResizeOnly(data_raw, batch_size) ==
    [i \in 1..batch_size |-> IF i \in DOMAIN data_raw THEN data_raw[i] ELSE <<>>]

\* data_raw.clear(); data_raw.resize(batch_size);
clear_data(data_raw, batch_size) == [i \in 1..batch_size |-> <<>>]

\* ClientClass(): data_raw is an empty vector; main has not yet cleared it.
RawInit ==
    /\ \E P \in RawParameterSets :
          role = [n \in {"client"} |->
                     [pc |-> "clear", params |-> P, batch_counter |-> 0,
                      batch_index |-> 0, data_raw |-> <<>>]]
    /\ plain = <<>>
    /\ links = <<>>
    /\ files = <<>>
    /\ IdleThreads
    /\ IdleQueue
    /\ IdleReader
    /\ IdleFrame
    /\ IdleObject
    /\ IdlePool
    /\ IdleMain

\* The head of the batch loop: the next batch begins or main returns.
RawLoop(r) ==
    IF r.batch_counter < r.params.batch_number
    THEN [r EXCEPT !.batch_counter = @ + 1, !.batch_index = 0, !.pc = "create"]
    ELSE [r EXCEPT !.pc = "exited"]

\* clientClass.clear_data(); before the batch loop.
Raw_clear_data ==
    /\ role["client"].pc = "clear"
    /\ role' = [role EXCEPT !["client"] =
                   RawLoop([@ EXCEPT !.data_raw =
                               clear_data(@, role["client"].params.batch_size)])]
    /\ UNCHANGED <<files, links, plain>>
    /\ UNCHANGED <<nonFileVars, readerVars, poolVars, mainVars>>

\* set_batch_index(i); create_raw_data(): integer_size / 8 push_back calls.
Raw_create_raw_data ==
    /\ role["client"].pc = "create"
    /\ \E block \in [1..(role["client"].params.integer_size \div 8) -> RawBytes] :
          role' = [role EXCEPT
                     !["client"].data_raw[role["client"].batch_index + 1] = @ \o block,
                     !["client"].pc = "encrypt"]
    /\ UNCHANGED <<files, links, plain>>
    /\ UNCHANGED <<nonFileVars, readerVars, poolVars, mainVars>>

\* encrypt_data(): encrypt(data_raw[batch_index], data_raw[batch_index].size() * 8);
\* then the element loop goes on.
Raw_encrypt_data ==
    /\ role["client"].pc = "encrypt"
    /\ LET r == role["client"]
       IN /\ plain' = Append(plain, r.data_raw[r.batch_index + 1])
          /\ role' = [role EXCEPT !["client"] =
                 IF r.batch_index + 1 < r.params.batch_size
                 THEN [r EXCEPT !.batch_index = @ + 1, !.pc = "create"]
                 ELSE [r EXCEPT !.pc = "transmit"]]
    /\ UNCHANGED <<files, links>>
    /\ UNCHANGED <<nonFileVars, readerVars, poolVars, mainVars>>

\* transmit_data(); clear_data(); at the end of a batch.
Raw_transmit_data ==
    /\ role["client"].pc = "transmit"
    /\ role' = [role EXCEPT !["client"] =
                   RawLoop([@ EXCEPT !.data_raw =
                               clear_data(@, role["client"].params.batch_size)])]
    /\ UNCHANGED <<files, links, plain>>
    /\ UNCHANGED <<nonFileVars, readerVars, poolVars, mainVars>>

RawNext ==
    \/ Raw_clear_data
    \/ Raw_create_raw_data
    \/ Raw_encrypt_data
    \/ Raw_transmit_data

SpecRaw == RawInit /\ [][RawNext]_vars

(***************************************************************************)
(* SpecDrain: one thread inside send_all_vectors_via_zmq(path, endpoint,   *)
(* [params,] remove_after_send) while thread t1 may call                   *)
(* append_vector_to_file on the same path.  Every next() of the reader     *)
(* and the final fopen(path, "wb") hold the path's mutex; a pull socket is *)
(* connected, so no send blocks.  plain keeps the spool as the call found  *)
(* it, links the messages sent.                                            *)
(***************************************************************************)
MaxDrainFrames == 2     \* frames of the spool when the call begins

DrainBlocks == {<<7>>, <<0, 9>>}        \* payloads of a byte spool

DrainVecs == {<<16>>, <<17, 16>>}       \* ciphertext vectors of a TFHE spool

DrainSpools(tfhe) ==
    {CreateAndAppendAll(<<>>, SpoolPath, data, tfhe) :
        data \in UNION {[1..n -> IF tfhe THEN DrainVecs ELSE DrainBlocks] :
                           n \in 0..MaxDrainFrames}}

DrainInit ==
    /\ \E tfhe \in BOOLEAN, remove_after_send \in BOOLEAN :
          /\ files \in DrainSpools(tfhe)
          /\ role = [n \in {"drain"} |->
                        [pc |-> "next", tfhe |-> tfhe,
                         remove_after_send |-> remove_after_send,
                         obj |-> IF tfhe THEN FileTFHEVectorReader(files, SpoolPath)
                                 ELSE FileVectorReader(files, SpoolPath),
                         stream |-> FreshStream(IF tfhe THEN "FILE" ELSE "fstream"),
                         items |-> <<>>, todo |-> <<>>, truncated |-> FALSE]]
    /\ plain = files[SpoolPath]
    /\ links = [l \in {LinkHHE} |-> <<>>]
    /\ thr = [t \in Writers |-> [pc |-> "idle", data |-> <<>>]]
    /\ appended = [t \in Writers |-> <<>>]
    /\ spooled = <<>>
    /\ g_path_mutexes = {get_mutex_for_path(SpoolPath)}
    /\ holder = [p \in PathNames |-> NoThread]
    /\ IdleQueue
    /\ IdleReader
    /\ IdleFrame
    /\ IdleObject
    /\ IdlePool
    /\ IdleMain

\* The truncating variant of the test of remove_after_send.
AfterSends_Always(r) == "truncate"

\* if (remove_after_send) { ... } after the sends.
AfterSends(r) == IF r.remove_after_send THEN "truncate" ELSE "returned"

\* One reader.next(): the byte flavour collects the vector and goes on
\* reading, and with the last one returns early when it has read nothing;
\* the TFHE flavour sends each vector as soon as it is read.
Drain_next ==
    /\ role["drain"].pc = "next"
    /\ LockAvailable(get_mutex_for_path(SpoolPath))
    /\ \E r \in {role["drain"]} :
       \E got \in {ReaderNext(r.obj, r.stream, files, SpoolPath)} :
       \E r1 \in {[r EXCEPT !.stream = got.stream]} :
          role' = [role EXCEPT !["drain"] =
             IF got.ret = "true"
             THEN IF r.tfhe
                  THEN [r1 EXCEPT !.todo = BatchMessages(<<got.out>>, TRUE),
                                  !.pc = "send"]
                  ELSE [r1 EXCEPT !.items = Append(@, got.out)]
             ELSE IF got.ret # "false"
             THEN [r1 EXCEPT !.pc = "threw"]
             ELSE IF r.tfhe
             THEN [r1 EXCEPT !.pc = AfterSends(r)]
             ELSE IF r.items = <<>>
             THEN [r1 EXCEPT !.pc = "returned"]
             ELSE [r1 EXCEPT !.todo = r.items, !.pc = "send"]]
    /\ UNCHANGED <<files, links, plain>>
    /\ UNCHANGED <<nonFileVars, readerVars, poolVars, mainVars>>

\* One send_vector_via_zmq(zmq_endpoint, vec).
Drain_send ==
    /\ role["drain"].pc = "send"
    /\ LET r == role["drain"]
       IN /\ links' = [links EXCEPT ![LinkHHE] = Append(@, Head(r.todo))]
          /\ role' = [role EXCEPT !["drain"] =
                 IF Tail(r.todo) # <<>> THEN [r EXCEPT !.todo = Tail(@)]
                 ELSE [r EXCEPT !.todo = <<>>,
                                !.pc = IF r.tfhe THEN "next" ELSE AfterSends(r)]]
    /\ UNCHANGED <<files, plain>>
    /\ UNCHANGED <<nonFileVars, readerVars, poolVars, mainVars>>

\* std::lock_guard lk(*m); FILE* f = fopen(path, "wb"); if (f) fclose(f);
Drain_truncate ==
    /\ role["drain"].pc = "truncate"
    /\ LockAvailable(get_mutex_for_path(SpoolPath))
    /\ files' = [files EXCEPT ![SpoolPath] = <<>>]
    /\ role' = [role EXCEPT !["drain"].pc = "returned",
                            !["drain"].truncated = TRUE]
    /\ UNCHANGED <<links, plain>>
    /\ UNCHANGED <<nonFileVars, readerVars, poolVars, mainVars>>

DrainNext ==
    \/ AppendCall("t1")
    \/ Lock("t1")
    \/ WriteLength("t1")
    \/ WritePayload("t1")
    \/ Drain_next
    \/ Drain_send
    \/ Drain_truncate

SpecDrain == DrainInit /\ [][DrainNext]_vars

(***************************************************************************)
(* SpecPipe: the runs of the three mains in ALL_AT_ONCE mode with no       *)
(* spool left from an earlier run, each role scheduled fairly: a role that *)
(* can take a step takes one.  A send waiting for a peer and a receive     *)
(* waiting for a message are steps that cannot be taken.                   *)
(***************************************************************************)
PipeInit ==
    /\ MainInit
    /\ role["client"].params.data_handling = "ALL_AT_ONCE"
    /\ files = <<>>

Pipe_Client_step ==
    \/ Main_Client_start
    \/ Main_Client_encrypt_data
    \/ Main_transmit_data("client")
    \/ Main_finalize("client")
    \/ Main_send("client")

Pipe_Server_step ==
    \/ Main_Server_start
    \/ Main_receive("server")
    \/ Main_Server_open_reader
    \/ Main_Server_transcipher_data
    \/ Main_transmit_data("server")
    \/ Main_finalize("server")
    \/ Main_send("server")

Pipe_TTP_step ==
    \/ Main_TTP_start
    \/ Main_receive("ttp")
    \/ Main_TTP_open_reader
    \/ Main_TTP_decrypt_data
    \/ Main_TTP_store_data

PipeNext ==
    \/ Pipe_Client_step
    \/ Pipe_Server_step
    \/ Pipe_TTP_step

SpecPipe ==
    /\ PipeInit
    /\ [][PipeNext]_vars
    /\ WF_vars(Pipe_Client_step)
    /\ WF_vars(Pipe_Server_step)
    /\ WF_vars(Pipe_TTP_step)

(***************************************************************************)
(* Properties of the framing functions (specification SpecFrame).          *)
(***************************************************************************)
CorruptionErrors ==
    {"throw_read_length", "throw_read_payload", "throw_suspicious_length",
     "throw_incomplete_length_header", "throw_payload_truncated"}

AllWritesOk == \A i \in 1..Len(written) : written[i].status = "ok"

AllFramesWithinCap ==
    \A i \in 1..Len(written) : Size(written[i].data) <= MAX_REASONABLE_SIZE

\* The offset of the first byte after frame i of the written frames.
RECURSIVE FrameEnd(_)
FrameEnd(i) == IF i = 0 THEN 0 ELSE FrameEnd(i - 1) + 4 + Size(written[i].data)

\* The four bytes at the position a read started from, when the file has them.
HeaderAt(pos) == Expand(Take(Drop(files[SpoolPath], pos), 4))

PrefixAboveCap(q) == q[1] > 64 \/ (q[1] = 64 /\ q[2] + q[3] + q[4] > 0)

\* C5: a single frame b with |b| <= 2^30 written to an empty sink reads back
\* as b, and the read after it returns the clean end marker false, for the
\* ofstream/ifstream pair and for the FILE* pair.
C5_FramingRoundTrip ==
    (/\ Len(written) = 1
     /\ written[1].status = "ok"
     /\ written[1].before = <<>>
     /\ Size(written[1].data) <= MAX_REASONABLE_SIZE
     /\ damage.kind = "none")
    => /\ Len(reads) >= 1 =>
            reads[1].ret = "true" /\ reads[1].out = written[1].data
       /\ Len(reads) >= 2 => reads[2].ret = "false"

C5_Witness ==
    /\ Len(written) = 1
    /\ written[1].status = "ok"
    /\ Size(written[1].data) = MAX_REASONABLE_SIZE
    /\ damage.kind = "none"
    /\ Len(reads) = 2
    /\ reads[1].out = written[1].data
    /\ reads[2].ret = "false"

\* Frame i of the written frames is cut: the file ends after its first
\* length byte and before its last byte.
CutInside(i) ==
    /\ damage.kind = "cut"
    /\ FrameEnd(i - 1) < damage.at
    /\ damage.at < FrameEnd(i)

\* C7: for a spool cut inside a frame (inside its 4-byte length header or
\* inside its payload), the read of that frame raises a corruption error,
\* for the ifstream reader and for the FILE* reader.
C7_TruncatedFrameDetected ==
    \A i \in 1..Len(written) :
        (AllWritesOk /\ AllFramesWithinCap /\ CutInside(i) /\ Len(reads) >= i)
        => reads[i].ret \in CorruptionErrors

\* C8: m complete frames followed by a frame whose payload lacks its last
\* byte: the first m reads return the m frames in order, and read m+1
\* raises a corruption error.
PayloadCutByOne ==
    /\ written # <<>>
    /\ AllWritesOk
    /\ \A i \in 1..(Len(written) - 1) : Size(written[i].data) <= MAX_REASONABLE_SIZE
    /\ Size(written[Len(written)].data) >= 1
    /\ damage.kind = "cut"
    /\ damage.at = FrameEnd(Len(written)) - 1

C8_CorruptedSpoolPrefix ==
    PayloadCutByOne =>
        \A i \in 1..Len(reads) :
            /\ i < Len(written) =>
                  reads[i].ret = "true" /\ reads[i].out = written[i].data
            /\ i = Len(written) => reads[i].ret \in CorruptionErrors
            /\ i <= Len(written)

C8_Witness ==
    /\ PayloadCutByOne
    /\ Len(written) = 2
    /\ Len(reads) = 2
    /\ reads[1].ret = "true"
    /\ reads[2].ret \in CorruptionErrors

\* C9: a read whose 4-byte big-endian length prefix decodes above 2^30
\* fails with the suspicious-length error and has not resized out; a prefix
\* of exactly 2^30 passes the cap test and out is resized to 2^30.
C9_ReadSideCap ==
    \A i \in 1..Len(reads) :
        LET q == HeaderAt(reads[i].pos)
        IN Len(q) = 4 =>
             /\ PrefixAboveCap(q) =>
                   /\ reads[i].ret = "throw_suspicious_length"
                   /\ reads[i].alloc = [hi |-> 0, lo |-> 0]
                   /\ reads[i].out = <<>>
             /\ q = <<64, 0, 0, 0>> =>
                   /\ reads[i].ret # "throw_suspicious_length"
                   /\ reads[i].alloc = [hi |-> 16384, lo |-> 0]

C9_Witness ==
    \E i \in 1..Len(reads) :
        /\ HeaderAt(reads[i].pos) = <<64, 0, 0, 1>>
        /\ reads[i].ret = "throw_suspicious_length"

\* C10: a write of a payload longer than 2^30 (to a sink that rejects no
\* write) fails and leaves the sink as it was, so every frame a write
\* accepted is read back.
C10_WriteSideCap ==
    /\ \A i \in 1..Len(written) :
          (Size(written[i].data) > MAX_REASONABLE_SIZE /\ written[i].accept = 2) =>
              written[i].status # "ok" /\ written[i].after = written[i].before
    /\ (AllWritesOk /\ damage.kind = "none") =>
          \A i \in 1..Len(reads) :
              i <= Len(written) =>
                  reads[i].ret = "true" /\ reads[i].out = written[i].data

(***************************************************************************)
(* Properties of the receiver (SpecRecv) and of the spool (SpecSpool).     *)
(***************************************************************************)
\* The frames of a file, read by the framing rule alone: a 4-byte
\* big-endian length, then that many bytes.  A file that ends inside a
\* frame parses to the frames before it followed by Torn.
Torn == <<[b |-> -1, n |-> 1]>>

RECURSIVE ParseFrames(_)
ParseFrames(s) ==
    IF s = <<>> THEN <<>>
    ELSE IF Size(s) < 4 THEN <<Torn>>
    ELSE LET q == Expand(Take(s, 4))
             n == ((q[1] * 256 + q[2]) * 256 + q[3]) * 256 + q[4]
         IN IF Size(s) - 4 < n THEN <<Torn>>
            ELSE <<Take(Drop(s, 4), n)>> \o ParseFrames(Drop(s, 4 + n))

RECURSIVE IsMerge(_, _, _, _)
IsMerge(f, a, b, c) ==
    IF f = <<>> THEN a = <<>> /\ b = <<>> /\ c = <<>>
    ELSE \/ a # <<>> /\ Head(a) = Head(f) /\ IsMerge(Tail(f), Tail(a), b, c)
         \/ b # <<>> /\ Head(b) = Head(f) /\ IsMerge(Tail(f), a, Tail(b), c)
         \/ c # <<>> /\ Head(c) = Head(f) /\ IsMerge(Tail(f), a, b, Tail(c))

IsControl(msg) == msg \in {SofMarker, EofMarker}

\* C1: n >= 1 payloads, none of them a SOF or EOF control message, sent to a
\* receiver asked for n messages: once the receiver has taken them all it
\* has stored n frames equal to the payloads in send order and returns n.
C1_QueueSpoolEquivalence ==
    (/\ rx.max_messages >= 1
     /\ Len(sent) = rx.max_messages
     /\ \A i \in 1..Len(sent) : ~IsControl(sent[i])
     /\ consumed = sent
     /\ rx.pc \in {"recv", "done", "returned"})
    => /\ rx.pc # "recv"
       /\ rx.received = rx.max_messages
       /\ ParseFrames(files[SpoolPath]) = sent
       /\ rx.pc = "returned" => rx.ret = rx.max_messages

\* C2: with expect_eof_frame set, when the EOF message is the k-th message
\* sent, k <= max_messages, and no control message precedes it, the receiver
\* returns k-1 and the spool holds exactly the first k-1 payloads.
C2_EofEarlyStop ==
    \A k \in 1..Len(sent) :
        (/\ rx.expect_eof_frame
         /\ sent[k] = EofMarker
         /\ k <= rx.max_messages
         /\ \A j \in 1..(k - 1) : ~IsControl(sent[j])
         /\ rx.pc = "returned")
        => /\ rx.ret = k - 1
           /\ ParseFrames(files[SpoolPath]) = SubSeq(sent, 1, k - 1)

\* C3: the receiver's step that takes a SOF message (the single byte 0xFE)
\* leaves the spool, the stored frames and the count as they were and goes
\* on receiving; no frame of the spool is a SOF message.
C3_SofStep ==
    (rx.pc = "recv" /\ wire # <<>> /\ Head(wire) = SofMarker
     /\ consumed' # consumed)
    => /\ files' = files
       /\ spooled' = spooled
       /\ thr' = thr
       /\ rx'.received = rx.received
       /\ rx'.pc = "recv"

C3_NoSofFrame ==
    \A i \in 1..Len(ParseFrames(files[SpoolPath])) :
        ParseFrames(files[SpoolPath])[i] # SofMarker

C3_SofTransparency == []C3_NoSofFrame /\ [][C3_SofStep]_vars

C3_Witness ==
    /\ Len(consumed) = 3
    /\ ~IsControl(consumed[1])
    /\ consumed[2] = SofMarker
    /\ ~IsControl(consumed[3])
    /\ rx.pc = "returned"
    /\ rx.ret = 2
    /\ ParseFrames(files[SpoolPath]) = <<consumed[1], consumed[3]>>

\* C4: whenever no thread holds the path's mutex, the file parses as whole
\* frames that are an interleaving of the writers' own sequences: every
\* stored payload once, each writer's frames in that writer's order.
C4_PathLockExclusion ==
    holder[get_mutex_for_path(SpoolPath)] = NoThread
    => LET fr == ParseFrames(files[SpoolPath])
       IN /\ \A i \in 1..Len(fr) : fr[i] # Torn
          /\ Len(fr) = Len(appended["t1"]) + Len(appended["t2"])
                       + Len(appended[Receiver])
          /\ IsMerge(fr, appended["t1"], appended["t2"], appended[Receiver])

C4_Witness ==
    /\ Quiescent
    /\ Len(appended["t1"]) = 2
    /\ Len(appended["t2"]) = 2
    /\ Len(appended[Receiver]) = 1
    /\ appended["t1"] # appended["t2"]
    /\ spooled[1] = appended["t2"][1]
    /\ spooled[2] = appended[Receiver][1]
    /\ spooled[3] = appended["t1"][1]
    /\ Len(ParseFrames(files[SpoolPath])) = 5

\* C6: frames b1..bn appended to an empty spool, then read by
\* FileVectorReader::next until it returns false: the reads return b1..bn
\* in order, and the read that returns false starts at the byte after the
\* last frame, the end of the file.
C6_SpoolConcatenation ==
    rd.kind = "fstream"
    => \A i \in 1..Len(reads) :
          /\ i <= Len(spooled) + 1
          /\ i <= Len(spooled) =>
                reads[i].ret = "true" /\ reads[i].out = spooled[i]
          /\ i = Len(spooled) + 1 =>
                /\ reads[i].ret = "false"
                /\ reads[i].pos = Size(files[SpoolPath])

C6_Witness ==
    /\ rd.kind = "fstream"
    /\ Len(spooled) >= 3
    /\ Len(reads) = Len(spooled) + 1
    /\ reads[Len(reads)].ret = "false"
    /\ \E i \in 1..Len(spooled) : Size(spooled[i]) = 2

(***************************************************************************)
(* Properties of append_vector_to_file under faults (specification         *)
(* SpecAppend).                                                            *)
(***************************************************************************)
\* C12: no silent loss on append: a call of append_vector_to_file (byte or
\* TFHE flavour) that returns normally has stored its frame at the end of
\* the spool; when the frame could not be stored the caller gets an error.
C12_NoSilentLoss ==
    \A i \in 1..Len(written) :
        written[i].outcome = "returned"
            => written[i].after = Cat(written[i].before, FrameOf(written[i].buf))

(***************************************************************************)
(* Properties of the readers' life cycle (specification SpecLife).         *)
(***************************************************************************)
\* C14: a reader constructed on a path that does not exist is constructed
\* without failure and is empty: every next() returns false (the end
\* marker) and reset() changes nothing.
C14_MissingFileReader ==
    (reader.kind # "none" /\ SpoolPath \notin DOMAIN files)
        => /\ reader.state = "empty"
           /\ rd = FreshStream(reader.kind)
           /\ \A i \in 1..Len(reads) : reads[i].ret \in {"false", "reset"}

\* The results a freshly opened reader of the same flavour gives on its
\* first n calls of next().
RECURSIVE FreshResults(_, _, _)
FreshResults(obj, stream, n) ==
    IF n = 0 THEN <<>>
    ELSE LET r == ReaderNext(obj, stream, files, SpoolPath)
         IN <<[ret |-> r.ret, out |-> r.out]>> \o FreshResults(obj, r.stream, n - 1)

LastReset ==
    LET R == {i \in 1..Len(reads) : reads[i].ret = "reset"}
    IN IF R = {} THEN 0 ELSE CHOOSE i \in R : \A j \in R : j <= i

\* C15: after reset(), the calls of next() give what a freshly opened reader
\* gives on the same file, from the first frame on, whatever calls came
\* before the reset (calls that returned end or threw included).
C15_ResetRestarts ==
    (reader.state = "open" /\ LastReset > 0)
        => SubSeq(reads, LastReset + 1, Len(reads))
             = FreshResults(reader, FreshStream(reader.kind), Len(reads) - LastReset)

\* A reader that had reached the end (or thrown) was reset and then
\* returned the first frame again.
C15_Witness ==
    /\ reader.state = "open"
    /\ Len(reads) >= 3
    /\ LastReset = Len(reads) - 1
    /\ reads[LastReset - 1].ret \notin {"true", "reset"}
    /\ reads[Len(reads)].ret = "true"

(***************************************************************************)
(* Further properties of the receiver (specification SpecRecv).            *)
(***************************************************************************)
\* C16: control frames are never persisted: whatever expect_eof_frame and
\* max_messages are, no frame of the spool the receiver writes is a SOF
\* (0xFE) or EOF (0xFF) control message it received.
C16_ControlNeverPersisted ==
    \A i \in 1..Len(ParseFrames(files[SpoolPath])) :
        ~(/\ IsControl(ParseFrames(files[SpoolPath])[i])
          /\ \E j \in 1..Len(consumed) :
                consumed[j] = ParseFrames(files[SpoolPath])[i])

\* The whole frames of the spool (a frame being written is not counted).
StoredFrames == SelectSeq(ParseFrames(files[SpoolPath]), LAMBDA f : f # Torn)

C17_CountInvariant ==
    /\ rx.received = Len(StoredFrames)
    /\ rx.pc = "returned" => rx.ret = Len(StoredFrames)
    /\ rx.max_messages > 0 => rx.received <= rx.max_messages
    /\ (rx.max_messages > 0 /\ rx.received = rx.max_messages)
           => rx.pc \in {"done", "returned"}

C17_CountStep ==
    (rx.max_messages > 0 /\ rx.received = rx.max_messages)
        => (consumed' = consumed /\ Len(wire') >= Len(wire))

Created(e) == {i \in 1..Len(binds) : binds[i].endpoint = e}

C18_PoolInvariant ==
    /\ \A e \in Endpoints : Cardinality(Created(e)) <= 1
    /\ \A e \in DOMAIN sockets_ :
          \E i \in Created(e) : binds[i].bound /\ binds[i].sock = sockets_[e]
    /\ \A i \in 1..Len(pushed) :
          /\ pushed[i].endpoint \in DOMAIN sockets_
          /\ pushed[i].sock = sockets_[pushed[i].endpoint]

C18_PoolStep ==
    \A e \in DOMAIN sockets_ : e \in DOMAIN sockets_' /\ sockets_'[e] = sockets_[e]

\* C18: the pool holds at most one push socket per endpoint string; the
\* socket of an endpoint is created and bound exactly once, by the first
\* send to that endpoint, every later send reuses it, and a socket is never
\* removed or replaced.
C18_PoolUniqueness == []C18_PoolInvariant /\ [][C18_PoolStep]_vars

\* C19: the pool's mutex is held only during the map lookup and insert: its
\* holder is at the lookup, never inside the socket's send, so a thread
\* blocked in send on endpoint A does not keep another thread from looking
\* up and sending on another endpoint B.
C19_PoolLockScope ==
    /\ mutex_ # NoThread => snd[mutex_].pc = "find"
    /\ \A t \in InSend : mutex_ # t
    /\ \A t \in Threads : snd[t].pc = "lock" /\ mutex_ # NoThread
                              => mutex_ \notin InSend

\* A thread took the pool's mutex, looked up endpoint B and sent on it while
\* another thread was, and still is, inside send on endpoint A.
C19_Witness ==
    \E i \in 1..Len(pushed) : \E t \in InSend :
        /\ t \in pushed[i].at_lock
        /\ pushed[i].by # t
        /\ pushed[i].endpoint # snd[t].endpoint
        /\ pushed[i].outcome = "queued"
        /\ \E j \in 1..Len(binds) : binds[j].endpoint = pushed[i].endpoint
                                      /\ binds[j].by = t

\* C20: sends on the same endpoint are serialized: no two threads are
\* inside the send call on the same pooled socket at once.
C20_SameEndpointSerialized ==
    \A t, u \in InSend : t # u => snd[t].sock # snd[u].sock

(***************************************************************************)
(* Properties of the roles (specification SpecRoles).                      *)
(***************************************************************************)
RECURSIVE Buffers(_)
Buffers(q) == IF q = <<>> THEN <<>> ELSE <<FromSeq(Head(q))>> \o Buffers(Tail(q))

\* C11: in ALL_AT_ONCE mode with agreeing Parameters and ciphers that do
\* not fail, when the TTP has finished, its decrypted spool holds exactly
\* the IntegerBlocks the Client produced, one frame each, in production
\* order, for the HE path and for the HHE path.
C11_PipelineCorrect ==
    (role["ttp"].pc = "exited" /\ TotalErrors = 0)
        => /\ Len(plain) = Elements(role["ttp"].params)
           /\ ParseFrames(FileBytes(files, file_decrypted)) = Buffers(plain)

\* C13: a role in which an error was raised while it processed an element
\* stops there: it processes no further element, sends and appends nothing
\* more, and exits with a non-zero exit code.
C13_FailFast ==
    \A n \in RoleNames :
        role[n].errors > 0
            => /\ ~role[n].after
               /\ role[n].pc = "exited" => role[n].exit # 0

(***************************************************************************)
(* Properties of the TFHE codec (specification SpecCodec).                 *)
(***************************************************************************)
\* The number of next() calls among the first j that returned a vector.
RECURSIVE TrueReads(_)
TrueReads(j) ==
    IF j = 0 THEN 0
    ELSE TrueReads(j - 1) + (IF reads[j].ret = "true" THEN 1 ELSE 0)

\* C21: with a non-null parameter set, serializing a vector v of N samples
\* gives the big-endian uint32 N followed by the N blocks, deserializing that
\* buffer gives N samples equal to v one by one, and the k-th vector a
\* FileTFHEVectorReader returns from a spool is the k-th vector appended.
C21_CodecRoundTrip ==
    /\ \A i \in 1..Len(written) :
          LET w == written[i]
              N == Len(w.v)
          IN /\ w.ser.ok
             /\ Size(w.ser.out) = 4 + N
             /\ Expand(Take(w.ser.out, 4)) = <<0, 0, 0, N>>
             /\ Expand(Drop(w.ser.out, 4)) = w.v
             /\ w.de.ok
             /\ w.de.out = w.v
    /\ \A j \in 1..Len(reads) :
          /\ reads[j].ret \in {"true", "false"}
          /\ reads[j].ret = "true" =>
                /\ TrueReads(j) <= Len(written)
                /\ reads[j].out = written[TrueReads(j)].v

\* Two vectors, the second of two samples, were appended and both were read
\* back.
C21_Witness ==
    /\ Len(written) = 2
    /\ Len(written[2].v) = 2
    /\ written[1].v # written[2].v
    /\ Len(reads) >= 2
    /\ TrueReads(Len(reads)) = 2

(***************************************************************************)
(* Properties of the latest-file lookup (specification SpecLatest).        *)
(***************************************************************************)
\* The name begins with 8 digits, an underscore and 6 digits.
HasStampPrefix(name) ==
    /\ Len(name) >= 15
    /\ \A k \in (1..8) \cup (10..15) : name[k] \in Digits
    /\ name[9] = "_"

StampedFiles == {e \in listing.entries : e.regular /\ HasStampPrefix(e.name)}

C22_StandAloneClientCompletes ==
    <>(\/ role["client"].params.data_handling # "SINGLE_COMPONENT"
       \/ ClientLink(role["client"].params) \in peers
       \/ role["client"].pc = "exited")

\* The ciphertext message of a produced block, as the variant has it.
CipherBytes(P, x) ==
    IF P.variant = "HHE" THEN FromSeq(Kreyvium_encrypt(x))
    ELSE serialize_TFHECiphertextVec_to_buffer(HE_encrypt(x), TRUE, TRUE).out

ClientSpoolPath ==
    IF role["client"].params.variant = "HHE"
    THEN role["client"].filename_kreyvium
    ELSE role["client"].filename_tfhe

\* C23: when the Client has completed in SINGLE_COMPONENT mode its
\* variant's spool holds exactly batch_size * batch_number frames, the
\* ciphertexts of the produced integers in production order, and the Client
\* has pushed no data message and no EOF message (only the SOF marker of
\* its constructor).
C23_ClientSpool ==
    LET r == role["client"]
        P == r.params
    IN (P.data_handling = "SINGLE_COMPONENT" /\ r.pc = "exited") =>
          /\ Len(plain) = Elements(P)
          /\ ClientSpoolPath \in DOMAIN files
          /\ files[ClientSpoolPath] =
                Frames([j \in 1..Len(plain) |-> CipherBytes(P, plain[j])])
          /\ r.log = <<SofMarker>>
          /\ r.exit = 0

\* The Client has completed in SINGLE_COMPONENT mode after more than one
\* batch, with two different integers produced.
C23_Witness ==
    /\ role["client"].params.data_handling = "SINGLE_COMPONENT"
    /\ role["client"].pc = "exited"
    /\ role["client"].params.batch_number >= 2
    /\ Len(plain) >= 2
    /\ plain[1] # plain[2]

\* C24: the Server in SINGLE_COMPONENT mode, started after the Client has
\* completed, takes the Client's Kreyvium spool as the latest file, reads
\* batch_size * batch_number frames from it and, when it has completed, its
\* own data_tfhe spool holds one TFHE frame per Kreyvium frame in the same
\* order; the Server pushes nothing.
C24_ServerSingleComponent ==
    LET r == role["server"]
        P == r.params
    IN (/\ P.data_handling = "SINGLE_COMPONENT"
        /\ r.pc # "off"
        /\ "client" \in r.before) =>
          /\ r.filename_kreyvium = role["client"].filename_kreyvium
          /\ r.log = <<>>
          /\ r.outbox = <<>>
          /\ r.pc = "exited" =>
                /\ r.exit = 0
                /\ r.batch = P.batch_number
                /\ r.filename_tfhe \in DOMAIN files
                /\ r.filename_tfhe.dir = DirTFHE
                /\ files[r.filename_tfhe] =
                      Frames([j \in 1..Len(plain) |->
                          serialize_TFHECiphertextVec_to_buffer(
                              HE_encrypt(plain[j]), TRUE, TRUE).out])
                /\ Len(plain) = Elements(P)

\* The Server has completed in SINGLE_COMPONENT mode, started after the
\* Client had completed, with an older Kreyvium spool lying beside the
\* Client's and two different integers transciphered.
C24_Witness ==
    /\ role["server"].params.data_handling = "SINGLE_COMPONENT"
    /\ role["server"].pc = "exited"
    /\ "client" \in role["server"].before
    /\ SpoolFile(DirKreyvium, StaleStamp, "k") \in DOMAIN files
    /\ Len(plain) >= 2
    /\ plain[1] # plain[2]

\* C25: the TTP in SINGLE_COMPONENT mode, started after the Server has
\* completed (the Server itself started after the Client had), takes as its most recent TFHE spool the spool the Server
\* wrote, and when it has completed the decrypted spool holds the
\* batch_size * batch_number produced integers, in order.
C25_TTPSingleComponent ==
    LET r == role["ttp"]
        P == r.params
    IN (/\ P.data_handling = "SINGLE_COMPONENT"
        /\ r.pc # "off"
        /\ "server" \in r.before
        /\ "client" \in role["server"].before
        /\ role["server"].exit = 0) =>
          /\ r.filename_tfhe = role["server"].filename_tfhe
          /\ r.pc = "exited" =>
                /\ r.filename_decrypted \in DOMAIN files
                /\ files[r.filename_decrypted] =
                      Frames([j \in 1..Len(plain) |-> FromSeq(plain[j])])
                /\ Len(plain) = Elements(P)

\* What the Client is to push in a run that has produced plain so far.
ClientWire ==
    <<SofMarker>>
    \o [j \in 1..Len(plain) |-> CipherBytes(role["client"].params, plain[j])]
    \o <<EofMarker>>

\* C27: in ALL_AT_ONCE mode the messages the Client has pushed are at every
\* moment a prefix of: one SOF marker, then the ciphertext of every produced
\* integer once, batch by batch in production order, then one EOF marker;
\* the EOF marker is pushed only after all batch_size * batch_number data
\* messages, and the Client that has completed has pushed all of it.
C27_ClientWireSequence ==
    LET r == role["client"]
        P == r.params
    IN P.data_handling = "ALL_AT_ONCE" =>
          /\ Len(r.log) <= Len(ClientWire)
          /\ r.log = SubSeq(ClientWire, 1, Len(r.log))
          /\ Len(r.log) = Len(plain) + 2 => Len(plain) = Elements(P)
          /\ r.pc = "exited" => r.log = ClientWire /\ Len(plain) = Elements(P)
          /\ links[IF P.variant = "HHE" THEN LinkHE ELSE LinkHHE] = <<>>

\* The Client has completed in ALL_AT_ONCE mode having pushed two
\* different ciphertexts between the markers.
C27_Witness ==
    /\ role["client"].params.data_handling = "ALL_AT_ONCE"
    /\ role["client"].pc = "exited"
    /\ Len(role["client"].log) >= 4
    /\ role["client"].log[2] # role["client"].log[3]

\* The data messages a role has pushed after the SOF marker, and those it
\* is still to push.
LatestMessages(r) == SubSeq(r.log, 2, Len(r.log)) \o r.outbox

\* C28: in TRANSMIT_KREYVIUM and TRANSMIT_TFHE mode the Client produces
\* nothing, pushes every frame of the most recent spool of its variant in
\* spool order, and always ends with the EOF marker as its last message,
\* whatever the spool directory holds (no spool, an empty spool).
C28_ClientTransmitLatest ==
    LET r == role["client"]
        P == r.params
    IN Transmits(P) =>
          /\ plain = <<>>
          /\ (r.pc = "truncate" \/ (r.pc = "send" /\ r.resume = "truncate")) =>
                Frames(LatestMessages(r)) = FileBytes(files, r.latest_file)
          /\ r.pc = "exited" =>
                /\ Len(r.log) >= 2
                /\ r.log[1] = SofMarker
                /\ r.log[Len(r.log)] = EofMarker

\* The number of EOF markers among the messages q.
EofCount(q) == Cardinality({j \in 1..Len(q) : q[j] = EofMarker})

\* C29: the Server that has completed has, for every data_handling value
\* other than SINGLE_COMPONENT, pushed exactly one EOF marker to the TTP
\* endpoint, after all of its data messages; in SINGLE_COMPONENT it has
\* pushed none.
C29_ServerFinalize ==
    LET r == role["server"]
        P == r.params
    IN (r.pc = "exited" /\ r.exit = 0) =>
          IF P.data_handling = "SINGLE_COMPONENT"
          THEN EofCount(r.log) = 0
          ELSE /\ EofCount(r.log) = 1
               /\ r.log[Len(r.log)] = EofMarker

\* C30: when data_handling is ALL_AT_ONCE or TRANSMIT_KREYVIUM the Server
\* first receives from the Client endpoint into its Kreyvium spool; while
\* that receive has not returned no transcipher step has happened (no
\* reader is open, no element and no batch is done), and the Server that has
\* completed has run the batch loop over batch_number batches of
\* batch_size Kreyvium frames.
C30_ServerReceiveThenLoop ==
    LET r == role["server"]
        P == r.params
    IN P.data_handling \in {"ALL_AT_ONCE", "TRANSMIT_KREYVIUM"} =>
          /\ r.pc = "receive" =>
                /\ r.batch = 0
                /\ r.i = 0
                /\ r.data = EmptyBatch(P)
                /\ r.obj.kind = "none"
                /\ r.filename_kreyvium.dir = DirKreyvium
          /\ (r.pc = "exited" /\ r.exit = 0) => r.batch = P.batch_number

\* C31: for every data_handling value other than SINGLE_COMPONENT the TTP
\* first receives from its variant's endpoint into its TFHE spool (no
\* reader is open and nothing is decrypted while the receive has not
\* returned), then runs the decrypt loop, and the TTP that has completed
\* has appended batch_number batches of batch_size decrypted integers to
\* the decrypted spool.
C31_TTPReceiveThenLoop ==
    LET r == role["ttp"]
        P == r.params
    IN P.data_handling # "SINGLE_COMPONENT" =>
          /\ r.pc = "receive" =>
                /\ r.batch = 0
                /\ r.i = 0
                /\ r.obj.kind = "none"
                /\ r.filename_tfhe.dir = DirEncryptedTFHE
                /\ r.filename_decrypted \notin DOMAIN files
          /\ (r.pc = "exited" /\ r.exit = 0) =>
                /\ r.batch = P.batch_number
                /\ r.filename_decrypted \in DOMAIN files
                /\ Len(ParseFrames(FileBytes(files, r.filename_decrypted)))
                      = Elements(P)

\* C32: zmq_receive_and_store has left its loop if and only if the count of
\* stored messages has reached max_messages (max_messages > 0) or an EOF
\* message, the single byte 0xFF, has been received with expect_eof_frame
\* set; so with max_messages = 0 only the EOF message ends reception, and
\* a receiver that got fewer than max_messages data messages and no EOF
\* message has not returned.
C32_ReceiverStopCondition ==
    rx.pc \in {"done", "returned"}
    <=> \/ rx.max_messages > 0 /\ rx.received >= rx.max_messages
        \/ /\ rx.expect_eof_frame
           /\ \E j \in 1..Len(consumed) : consumed[j] = EofMarker

(***************************************************************************)
(* Properties of the mutex registry (specification SpecKeys).              *)
(***************************************************************************)
\* The thread is between taking its path's mutex and releasing it.
InSection(t) == thr[t].pc \in {"write_length", "write_payload"}

\* C33: two path strings that denote the same spool file obtain the same
\* lock, so that two threads are never at the same time inside the
\* critical sections of paths that denote one file; an entry of the
\* registry, once made, stays.
C33_PathLockKeying ==
    /\ \A p, q \in g_path_mutexes :
          FileOf(p) = FileOf(q) => get_mutex_for_path(p) = get_mutex_for_path(q)
    /\ \A t, u \in Threads :
          (t # u /\ InSection(t) /\ InSection(u))
             => FileOf(thr[t].path) # FileOf(thr[u].path)


(***************************************************************************)
(* Properties of the batch loops (specification SpecMain).                 *)
(***************************************************************************)
\* C34: in every reachable state of each role's batch loop the index within
\* the batch is below batch_size and the batches begun are at most
\* batch_number (the code counts a batch when it begins, the model when it
\* ends); the batch buffer has exactly batch_size slots, and the slot the
\* next element is written to lies within it.
C34_BatchCursor ==
    \A n \in RoleNames :
       LET r == role[n]
       IN /\ r.i < r.params.batch_size
          /\ r.batch <= r.params.batch_number
          /\ DOMAIN r.data = 1..r.params.batch_size
          /\ r.pc \in {"element", "transmit", "store"}
                => r.batch + 1 <= r.params.batch_number
          /\ r.pc = "element" => r.i + 1 \in DOMAIN r.data

\* A role is at the last slot of a batch of two, the first slot filled.
C34_Witness ==
    \E n \in RoleNames :
       /\ role[n].pc = "element"
       /\ role[n].params.batch_size = 2
       /\ role[n].i = 1
       /\ role[n].data[1] # <<>>

(***************************************************************************)
(* Properties of the Client's raw data (specification SpecRaw).            *)
(***************************************************************************)

\* C35: every raw block the Client hands to its encryptor has exactly
\* integer_size / 8 bytes, in every batch and at every index of the batch:
\* the slot holds just the bytes created for this element.
C35_IntegerBlockLength ==
    LET r == role["client"]
        bytes == r.params.integer_size \div 8
    IN /\ \A j \in 1..Len(plain) : Len(plain[j]) = bytes
       /\ r.pc = "encrypt" => Len(r.data_raw[r.batch_index + 1]) = bytes

\* The Client is about to encrypt an element of its second batch.
C35_Witness ==
    /\ role["client"].pc = "encrypt"
    /\ role["client"].batch_counter = 2
    /\ Len(plain) >= 1

(***************************************************************************)
(* Properties of the receiver's classification (specification SpecRecv).   *)
(***************************************************************************)

\* The first byte of a message; a zero-length message has none.
FirstByte(msg) == IF msg = <<>> THEN -1 ELSE msg[1].b

\* The messages taken so far that the first byte makes data for this call.
TakenAsData ==
    SelectSeq(consumed,
              LAMBDA m : /\ FirstByte(m) # 254
                         /\ ~(rx.expect_eof_frame /\ FirstByte(m) = 255))

\* C36: zmq_receive_and_store decides on the first byte alone, whatever
\* the length: a message beginning with 0xFE is neither persisted nor
\* counted; one beginning with 0xFF ends reception when expect_eof_frame
\* is set and is persisted as data when it is not; every other message,
\* the zero-length one included, is persisted and counted.
C36_FirstByteClassification ==
    LET n == Len(TakenAsData)
        whole == IF rx.pc = "persist" THEN n - 1 ELSE n
    IN /\ StoredFrames = SubSeq(TakenAsData, 1, whole)
       /\ rx.received = whole
       /\ rx.pc = "persist" => n >= 1 /\ thr[Receiver].data = TakenAsData[n]
       /\ \A j \in 1..Len(consumed) :
             (rx.expect_eof_frame /\ FirstByte(consumed[j]) = 255)
                => j = Len(consumed) /\ rx.pc \in {"done", "returned"}

\* A call without EOF test has stored a zero-length message and a message
\* beginning with 0xFF, and skipped one beginning with 0xFE.
C36_Witness ==
    /\ ~rx.expect_eof_frame
    /\ \E i, j \in 1..Len(StoredFrames) :
          /\ StoredFrames[i] = <<>>
          /\ FirstByte(StoredFrames[j]) = 255 /\ Size(StoredFrames[j]) = 2
    /\ \E j \in 1..Len(consumed) :
          FirstByte(consumed[j]) = 254 /\ Size(consumed[j]) = 2

(***************************************************************************)
(* Properties of send_all_vectors_via_zmq (specification SpecDrain).       *)
(***************************************************************************)

\* No append_vector_to_file call has begun.
NoWriter == spooled = <<>> /\ thr["t1"].pc = "idle"

C38_NoLossUnderDrain ==
    (/\ role["drain"].pc = "returned"
     /\ ~role["drain"].tfhe
     /\ role["drain"].remove_after_send
     /\ thr["t1"].pc = "idle")
        => links[LinkHHE] \o ParseFrames(files[SpoolPath])
              = ParseFrames(plain) \o spooled

(***************************************************************************)
(* Properties of the element counts (specification SpecMain).              *)
(***************************************************************************)

\* The frames a role's reader has read: the whole frames of its input
\* spool that lie before the read position.
FramesRead(n, path) ==
    Len(SelectSeq(ParseFrames(Take(FileBytes(files, path), role[n].stream.pos)),
                  LAMBDA f : f # Torn))

\* The TFHE ciphertexts the Server has emitted: appended to its TFHE spool
\* or pushed to the TTP.
ServerEmitted ==
    LET r == role["server"]
    IN Len(SelectSeq(ParseFrames(FileBytes(files, r.filename_tfhe)),
                     LAMBDA f : f # Torn))
       + Len(SelectSeq(r.log, LAMBDA m : m # EofMarker))

\* C39: the frames the TTP has appended to the decrypted spool are at most
\* the frames it has read from its TFHE spool, and the TFHE ciphertexts the
\* Server has emitted are at most the Kreyvium frames it has read: an
\* input that is missing gives no output.
C39_OutputWithinInput ==
    /\ role["ttp"].pc \in {"element", "store", "exited"}
          => Len(ParseFrames(FileBytes(files, role["ttp"].filename_decrypted)))
                <= FramesRead("ttp", role["ttp"].filename_tfhe)
    /\ (/\ ~Transmits(role["server"].params)
        /\ role["server"].pc \in {"element", "transmit", "send", "eof", "exited"})
          => ServerEmitted
                <= FramesRead("server", role["server"].filename_kreyvium)

(***************************************************************************)
(* Properties of the pipeline (specification SpecPipe).                    *)
(***************************************************************************)

\* The roles of the run's variant: the Server is part of HHE only.
VariantRoles ==
    IF role["client"].params.variant = "HHE" THEN RoleNames
    ELSE RoleNames \ {"server"}

\* C40: in ALL_AT_ONCE mode with agreeing parameters and fair scheduling
\* every role of the variant eventually returns from main, in every
\* interleaving; no send, the final EOF send included, blocks forever.
C40_PipelineTerminates ==
    <>(\A n \in VariantRoles : role[n].pc = "exited")

====
